---- MODULE Spec2Model ----
(***************************************************************************)
(* Model of the pto-core control plane (src/ptocore): the analyzer state   *)
(* store with its transition gate, the action log with its id counter,     *)
(* the sensitivity engine and the timeline algebra it rests on.            *)
(*                                                                         *)
(* Several specifications share the variables below; each one keeps the    *)
(* variables it does not use at their initial value.                       *)
(*   SpecState  - calls of AnalyzerState.transition / transition_to_error  *)
(*   SpecSensor - Sensor.check over analyzers with declared types          *)
(*   SpecLog    - the Validator's appends to the action log                *)
(*   SpecDirect - direct sensitivity over a growing action log             *)
(*   SpecBasic  - basic sensitivity over a growing action log              *)
(*   SpecCommit - commits of analysis results into the observations        *)
(*   SpecPipeline - the loops of Sensor, Supervisor, Validator and admin    *)
(*   SpecAgents - requests to the agents of the Supervisor                  *)
(*   SpecProtocol - a supervisor connection fed in chunks                   *)
(*   SpecTimeline - Timeline objects built by add and remove                *)
(*   SpecHash   - the content hash of an observation document               *)
(***************************************************************************)
EXTENDS Integers, Sequences, FiniteSets, TLC

VARIABLES
    analyzers_coll,   \* analyzer id -> [state, error, wish]   (the analyzers collection)
    inflight,         \* caller -> the document a running transition_to_error has read
    last,             \* the most recent AnalyzerState call: [domain, observed, outcome]
    ordered,          \* the analyzer whose execution Sensor.check ordered last ("None": none)
    git_commit,       \* the commit checked out in the analyzer's working_dir
    action_log,       \* the action log: its entries in the order of their insertion
    idfactory,        \* the 'next' value of the action_id counter
    metadata_coll,    \* upload id -> [complete, action_id, valid]   (action_id -1: no such field)
    requests_coll,    \* the queued validate_upload requests, oldest first
    agent,            \* the result slots of the module agent of the current run
    output_coll,      \* the observations collection: _id is the position in the list
    temporary_coll,   \* the scratch collection of the finished run with the run's timespans
    last_commit,      \* the scratch collection and timespans of the last successful commit
    agents,           \* the agents of the Supervisor in the order of their creation
    reply,            \* the last request a connection handed over and the response sent
    crashed,          \* the components whose loop an exception has ended
    conn,             \* a supervisor connection: bytes on the wire, buffer, lines sent, responses
    timelines,        \* two Timeline objects: the lists of their intervals
    observation,      \* an observation document: its <<key, value>> pairs in dict order
    execution_result, \* the execution_result field of analyzer X
    committing,       \* the commit the Validator is in: its code, its action id, the steps done
    temporary_db      \* the collections of the temporary database: the identifiers of their agents

stateVars == <<analyzers_coll, inflight, last>>

sensorVars == <<ordered, git_commit>>

logVars == <<action_log, idfactory, metadata_coll, requests_coll, agent>>

\* the variables of the specifications further down; the ones above leave them alone
pipeVars == <<agents, reply, crashed, conn>>

otherVars == <<observation, execution_result, committing, temporary_db>>

laterVars == <<output_coll, temporary_coll, last_commit, pipeVars, timelines, otherVars>>

vars == <<stateVars, sensorVars, logVars, laterVars>>

-----------------------------------------------------------------------------
(* Bounds *)

NCallers == 2          \* concurrent callers of AnalyzerState

MaxLog == 3            \* action ids handed out

MaxRequests == 1       \* validate_upload requests waiting

MaxDirectLog == 4      \* entries of the action log under SpecDirect

MaxBasicLog == 3       \* entries of the action log under SpecBasic

MaxCommits == 3        \* runs committed under SpecCommit

-----------------------------------------------------------------------------
(* analyzerstate.py: the transition table *)

transition_domains ==
    [admin      |-> [error      |-> {"disabled"},
                     disabled   |-> {"error", "sensing"}],
     sensor     |-> [sensing    |-> {"error", "disabled", "planned"}],
     supervisor |-> [planned    |-> {"error", "executing"},
                     executing  |-> {"error", "executed"}],
     validator  |-> [executed   |-> {"error", "validating"},
                     validating |-> {"error", "sensing"}]]

Domains == DOMAIN transition_domains

all_states == UNION {DOMAIN transition_domains[d] : d \in Domains}

passive_states == (DOMAIN transition_domains["admin"]) \cup (DOMAIN transition_domains["sensor"])

running_states == all_states \ passive_states

NoError == <<"None", "None">>

NoDoc == [domain |-> "None", id |-> "None", state |-> "None"]

NoCall == [domain |-> "None", observed |-> "None", outcome |-> "None"]

\* create_analyzer: the record a new analyzer starts with
create_analyzer(input_types, output_types) ==
    [state |-> "disabled", input_types |-> input_types, output_types |-> output_types,
     wish |-> "None", error |-> NoError]

\* AnalyzerState.is_allowed (evaluated only for prev_state in the domain's table;
\* any other prev_state raises KeyError in the caller)
is_allowed(domain, prev_state, next_state) ==
    next_state \in transition_domains[domain][prev_state]

\* AnalyzerState.state_to_domain
state_to_domain(state) ==
    IF \E d \in Domains : state \in DOMAIN transition_domains[d]
    THEN CHOOSE d \in Domains : state \in DOMAIN transition_domains[d]
    ELSE "None"

\* AnalyzerState.is_in_my_domain
is_in_my_domain(domain, analyzer) == state_to_domain(analyzer.state) # domain

\* The way AnalyzerState.transition ends for the given arguments and store.
transition_outcome(coll, domain, analyzer_id, prev_state, next_state) ==
    IF prev_state \notin DOMAIN transition_domains[domain] THEN "KeyError"
    ELSE IF is_allowed(domain, prev_state, next_state) THEN "TransitionNotSupportedError"
    ELSE IF analyzer_id \notin DOMAIN coll \/ coll[analyzer_id].state # prev_state
         THEN "TransitionFailed"
    ELSE "ok"

\* The store after AnalyzerState.transition (find_one_and_update on _id and state).
transition_update(coll, domain, analyzer_id, prev_state, next_state) ==
    IF transition_outcome(coll, domain, analyzer_id, prev_state, next_state) = "ok"
    THEN [coll EXCEPT ![analyzer_id].state = next_state, ![analyzer_id].error = NoError]
    ELSE coll

\* The store after the write of AnalyzerState.transition_to_error
\* (find_one_and_update on _id alone).
error_update(coll, domain, analyzer_id, reason) ==
    [coll EXCEPT ![analyzer_id].state = "error", ![analyzer_id].error = <<domain, reason>>]

-----------------------------------------------------------------------------
(* The stores of the Validator as they are before anything has happened *)

Uploads == {"A", "B"}

\* a list-valued field that holds None
NoneList == <<"None">>

\* AgentBase.__init__: the result slots of a new agent
new_agent == [result_max_action_id |-> -1, result_timespans |-> NoneList,
              result_upload_ids |-> NoneList]

\* an upload as the uploader leaves it in the metadata collection
new_upload == [complete |-> FALSE, action_id |-> -1, valid |-> FALSE]

InitLog ==
    /\ action_log = <<>>
    /\ idfactory = 0
    /\ metadata_coll = [u \in Uploads |-> new_upload]
    /\ requests_coll = <<>>
    /\ agent = new_agent

\* a payload of None
NoPayload == [max_action_id |-> [convertible |-> FALSE, value |-> 0], list |-> <<>>]

\* no request has been answered yet
NoReply == [request |-> [identifier |-> 0, token |-> "None", action |-> "None",
                         payload |-> NoPayload],
            response |-> "None"]

\* JsonProtocol.connection_made: the buffer is empty; no line has been sent, no byte
\* is on the wire and no response has been written
new_connection == [wire |-> <<>>, buffer |-> <<>>, sent |-> <<>>, written |-> <<>>]

\* an analyzer document without the field execution_result
NoResult == [temporary_coll |-> 0, max_action_id |-> -1, timespans |-> NoneList,
             upload_ids |-> NoneList]

\* the Validator is in no commit
NoCommit == [module |-> "None", action_id |-> -1, pushed |-> FALSE, logged |-> FALSE,
             written |-> FALSE, crashed |-> FALSE]

\* the stores of the later specifications before anything has happened
InitLater ==
    /\ output_coll = <<>>
    /\ temporary_coll = [docs |-> <<>>, timespans |-> NoneList]
    /\ last_commit = [docs |-> <<>>, timespans |-> NoneList]
    /\ agents = <<>>
    /\ reply = NoReply
    /\ crashed = {}
    /\ conn = new_connection
    /\ timelines = [A |-> <<>>, B |-> <<>>]
    /\ observation = <<>>
    /\ execution_result = NoResult
    /\ committing = NoCommit
    /\ temporary_db = {}

-----------------------------------------------------------------------------
(* SpecState: every component calls the AnalyzerState interface with any     *)
(* arguments; a transition_to_error is two steps, its read and its write.   *)

StateAnalyzers == {"X"}

Callers == 1..NCallers

\* state names a caller may pass: the declared ones and one that is not declared
StateInputs == all_states \cup {"finalizing"}

IdInputs == StateAnalyzers \cup {"nobody"}

InitState ==
    /\ analyzers_coll = [a \in StateAnalyzers |-> create_analyzer({}, {"type0"})]
    /\ inflight = [c \in Callers |-> NoDoc]
    /\ last = NoCall
    /\ ordered = "None"
    /\ git_commit = "commit0"
    /\ InitLog
    /\ InitLater

\* AnalyzerState.transition(analyzer_id, prev_state, next_state)
Transition(c, domain, analyzer_id, prev_state, next_state) ==
    /\ inflight[c] = NoDoc
    /\ analyzers_coll' = transition_update(analyzers_coll, domain, analyzer_id, prev_state, next_state)
    /\ last' = [domain |-> domain, observed |-> prev_state,
                outcome |-> transition_outcome(analyzers_coll, domain, analyzer_id, prev_state, next_state)]
    /\ UNCHANGED inflight
    /\ UNCHANGED sensorVars
    /\ UNCHANGED <<logVars, laterVars>>

\* AnalyzerState.transition_to_error up to its domain check: reads the document
ToErrorRead(c, domain, analyzer_id) ==
    /\ inflight[c] = NoDoc
    /\ IF analyzer_id \in DOMAIN analyzers_coll
          /\ ~ is_in_my_domain(domain, analyzers_coll[analyzer_id])
       THEN /\ inflight' = [inflight EXCEPT ![c] =
                   [domain |-> domain, id |-> analyzer_id,
                    state |-> analyzers_coll[analyzer_id].state]]
            /\ UNCHANGED last
       ELSE /\ last' = [domain |-> domain, observed |-> "None", outcome |-> "TransitionFailed"]
            /\ UNCHANGED inflight
    /\ UNCHANGED analyzers_coll
    /\ UNCHANGED sensorVars
    /\ UNCHANGED <<logVars, laterVars>>

\* AnalyzerState.transition_to_error from its find_one_and_update on
ToErrorWrite(c) ==
    /\ inflight[c] # NoDoc
    /\ analyzers_coll' = error_update(analyzers_coll, inflight[c].domain, inflight[c].id, "reason")
    /\ last' = [domain |-> inflight[c].domain, observed |-> inflight[c].state, outcome |-> "ok"]
    /\ inflight' = [inflight EXCEPT ![c] = NoDoc]
    /\ UNCHANGED sensorVars
    /\ UNCHANGED <<logVars, laterVars>>

NextState ==
    \/ \E c \in Callers, d \in Domains, a \in IdInputs, p \in StateInputs, n \in StateInputs :
          Transition(c, d, a, p, n)
    \/ \E c \in Callers, d \in Domains, a \in IdInputs : ToErrorRead(c, d, a)
    \/ \E c \in Callers : ToErrorWrite(c)

SpecState == InitState /\ [][NextState]_vars

-----------------------------------------------------------------------------
(* Claims settled under SpecState *)

\* C1 (state-machine closure): every call that changes an analyzer's stored state
\* ended successfully and made a (previous -> next) step listed in the calling
\* component's own row of transition_domains; every call that failed left the
\* record as it was; the stored state is always one of the declared states.
C1_StateMachineClosure ==
    [][ /\ \A a \in DOMAIN analyzers_coll :
              analyzers_coll'[a].state # analyzers_coll[a].state =>
                 /\ last'.outcome = "ok"
                 /\ analyzers_coll[a].state \in DOMAIN transition_domains[last'.domain]
                 /\ analyzers_coll'[a].state \in
                        transition_domains[last'.domain][analyzers_coll[a].state]
        /\ (last' # last /\ last'.outcome # "ok") => analyzers_coll' = analyzers_coll
        /\ \A a \in DOMAIN analyzers_coll : analyzers_coll'[a].state \in all_states
      ]_vars

\* C2 (compare-and-swap): a call of transition or transition_to_error changes a
\* record only if the state stored at the moment of the write is the state the
\* caller observed (its prev_state argument, or the state of the document that
\* transition_to_error read); of two callers racing from one state the second
\* writes nothing.
C2_CompareAndSwap ==
    [][ \A a \in DOMAIN analyzers_coll :
           analyzers_coll'[a] # analyzers_coll[a] =>
              analyzers_coll[a].state = last'.observed
      ]_vars

-----------------------------------------------------------------------------
(* SpecSensor: two analyzers with declared types; their states are moved by  *)
(* calls of the AnalyzerState interface, and Sensor.check runs over them.    *)

SensorAnalyzers == {"P", "Q"}

\* the input_types and output_types an analyzer may declare
InputTypeLists == {{}, {"type0"}}

OutputTypeLists == {{"type0"}, {"type1"}}

\* AnalyzerState.running_analyzers
running_analyzers(coll) == {a \in DOMAIN coll : coll[a].state \in running_states}

\* AnalyzerState.sensing_analyzers
sensing_analyzers(coll) == {a \in DOMAIN coll : coll[a].state = "sensing"}

\* AnalyzerState.blocked_types
blocked_types(coll) == UNION {coll[a].input_types : a \in running_analyzers(coll)}

\* AnalyzerState.unstable_types
unstable_types(coll) == UNION {coll[a].output_types : a \in running_analyzers(coll)}

\* AnalyzerState.check_wish: whether the wish is honoured
check_wish(domain, analyzer, granting_wish) ==
    is_in_my_domain(domain, analyzer) /\ granting_wish = analyzer.wish

\* a type check that compares the outputs of the analyzer only
sensor_skips_outputs(coll, analyzer) ==
    analyzer.output_types \cap blocked_types(coll) # {}

\* the type checks of Sensor.check: TRUE when the analyzer is passed over
sensor_skips(coll, analyzer) ==
    \/ analyzer.output_types \cap blocked_types(coll) # {}
    \/ analyzer.input_types \cap unstable_types(coll) # {}

\* every order in which a cursor may return the given documents
Cursors(ids) == {q \in [1..Cardinality(ids) -> ids] : \A a \in ids : \E i \in DOMAIN q : q[i] = a}

\* a loop that does not ask whether the analyzer has unprocessed data
RECURSIVE sensor_loop_eager(_, _, _, _, _)
sensor_loop_eager(coll, snapshot, cursor, unprocessed, acc) ==
    IF cursor = <<>> THEN [coll |-> coll, ordered |-> acc, outcome |-> "None"]
    ELSE LET analyzer_id == Head(cursor)
             analyzer == snapshot[analyzer_id]
         IN IF \/ check_wish("sensor", analyzer, "disable")
               \/ check_wish("sensor", analyzer, "cancel")
               \/ sensor_skips(coll, analyzer)
            THEN sensor_loop_eager(coll, snapshot, Tail(cursor), unprocessed, acc)
            ELSE LET outcome == transition_outcome(coll, "sensor", analyzer_id, "sensing", "planned")
                     after == transition_update(coll, "sensor", analyzer_id, "sensing", "planned")
                 IN IF outcome = "ok"
                    THEN sensor_loop_eager(after, snapshot, Tail(cursor), unprocessed, analyzer_id)
                    ELSE [coll |-> coll, ordered |-> analyzer_id, outcome |-> outcome]

\* The loop of Sensor.check over the sensing analyzers, in cursor order; unprocessed
\* is the set of analyzers for which has_unprocessed_data answers True.  An
\* exception of transition ends the loop.
RECURSIVE sensor_loop(_, _, _, _, _)
sensor_loop(coll, snapshot, cursor, unprocessed, acc) ==
    IF cursor = <<>> THEN [coll |-> coll, ordered |-> acc, outcome |-> "None"]
    ELSE LET analyzer_id == Head(cursor)
             analyzer == snapshot[analyzer_id]
         IN IF \/ check_wish("sensor", analyzer, "disable")
               \/ check_wish("sensor", analyzer, "cancel")
               \/ sensor_skips(coll, analyzer)
               \/ analyzer_id \notin unprocessed
            THEN sensor_loop(coll, snapshot, Tail(cursor), unprocessed, acc)
            ELSE LET outcome == transition_outcome(coll, "sensor", analyzer_id, "sensing", "planned")
                     after == transition_update(coll, "sensor", analyzer_id, "sensing", "planned")
                 IN IF outcome = "ok"
                    THEN sensor_loop(after, snapshot, Tail(cursor), unprocessed, analyzer_id)
                    ELSE [coll |-> coll, ordered |-> analyzer_id, outcome |-> outcome]

InitSensor ==
    /\ analyzers_coll \in [SensorAnalyzers ->
           {create_analyzer(i, o) : i \in InputTypeLists, o \in OutputTypeLists}]
    /\ inflight = [c \in Callers |-> NoDoc]
    /\ last = NoCall
    /\ ordered = "None"
    /\ git_commit = "commit0"
    /\ InitLog
    /\ InitLater

\* Sensor.check
SensorCheck(cursor, unprocessed) ==
    LET result == sensor_loop(analyzers_coll, analyzers_coll, cursor, unprocessed, "None")
    IN /\ analyzers_coll' = result.coll
       /\ ordered' = result.ordered
       /\ last' = IF result.ordered = "None" THEN last
                  ELSE [domain |-> "sensor", observed |-> "sensing", outcome |-> result.outcome]
       /\ UNCHANGED inflight
       /\ UNCHANGED git_commit
       /\ UNCHANGED <<logVars, laterVars>>

NextSensor ==
    \/ \E d \in Domains, a \in SensorAnalyzers, n \in all_states :
          Transition(1, d, a, analyzers_coll[a].state, n)
    \/ \E d \in Domains, a \in SensorAnalyzers : ToErrorRead(1, d, a)
    \/ ToErrorWrite(1)
    \/ \E cursor \in Cursors(sensing_analyzers(analyzers_coll)),
          unprocessed \in SUBSET SensorAnalyzers : SensorCheck(cursor, unprocessed)

SpecSensor == InitSensor /\ [][NextSensor]_vars

-----------------------------------------------------------------------------
(* SpecLog: uploads complete, requests arrive, a module reports its result, *)
(* and the Validator appends to the action log.                              *)

\* the order of the uploads' 'timestamp' fields
upload_timestamp == [A |-> 1, B |-> 2]

\* the max_action_id values a module may send: a negative one, the ids of the
\* first entries, and one that no entry has yet
MaxActionIdInputs == {-1, 0, 1, MaxLog}

\* the timespans lists a module may send
TimespansInputs == {<<>>, <<"timespan">>}

\* the upload_ids lists a module may send
UploadIdsInputs == {<<>>, <<"A">>}

\* a counter read with ReturnDocument.AFTER: the first value handed out is 1
incrementor_after(next) == [value |-> next + 1, next |-> next + 1]

\* the closure returned by AutoIncrementFactory.get_incrementor: find_one_and_update
\* with $inc and ReturnDocument.BEFORE
incrementor(next) == [value |-> next, next |-> next + 1]

\* Collection.insert_one on the action log (_id is the unique key)
insert_one(log, doc) ==
    IF \E i \in DOMAIN log : log[i]._id = doc._id THEN log ELSE Append(log, doc)

\* a bulk write that inserts the last document first
RECURSIVE bulk_write_reversed(_, _)
bulk_write_reversed(log, docs) ==
    IF docs = <<>> THEN log
    ELSE bulk_write_reversed(insert_one(log, docs[Len(docs)]), SubSeq(docs, 1, Len(docs) - 1))

\* Collection.bulk_write of InsertOne operations, ordered
RECURSIVE bulk_write(_, _)
bulk_write(log, docs) ==
    IF docs = <<>> THEN log ELSE bulk_write(insert_one(log, Head(docs)), Tail(docs))

\* a log entry; a field the writer leaves out is "None", NoneList or -1
log_entry(action_id, action, upload_id, upload_ids, max_action_id, analyzer_id) ==
    [_id |-> action_id, action |-> action, upload_id |-> upload_id, upload_ids |-> upload_ids,
     max_action_id |-> max_action_id, analyzer_id |-> analyzer_id]

\* the cursor of check_for_uploads: complete uploads without action id, by timestamp
RECURSIVE sort_by_timestamp(_)
sort_by_timestamp(ids) ==
    IF ids = {} THEN <<>>
    ELSE LET first == CHOOSE u \in ids : \A v \in ids : upload_timestamp[u] <= upload_timestamp[v]
         IN <<first>> \o sort_by_timestamp(ids \ {first})

uploads_cursor(metadata) ==
    sort_by_timestamp({u \in DOMAIN metadata : metadata[u].complete /\ metadata[u].action_id = -1})

\* set_action_id_ops of check_for_uploads: one action id and one log entry per upload
RECURSIVE set_action_id_ops(_, _)
set_action_id_ops(cursor, next) ==
    IF cursor = <<>> THEN <<>>
    ELSE <<log_entry(incrementor(next).value, "upload", Head(cursor), NoneList, -1, "None")>>
         \o set_action_id_ops(Tail(cursor), incrementor(next).next)

RECURSIVE increments(_, _)
increments(n, next) == IF n = 0 THEN next ELSE increments(n - 1, incrementor(next).next)

\* the uploader marks an upload complete
UploadCompletes(u) ==
    /\ ~ metadata_coll[u].complete
    /\ metadata_coll' = [metadata_coll EXCEPT ![u].complete = TRUE]
    /\ UNCHANGED <<action_log, idfactory, requests_coll, agent>>
    /\ UNCHANGED <<stateVars, sensorVars, laterVars>>

\* Validator.check_for_uploads
CheckForUploads ==
    LET cursor == uploads_cursor(metadata_coll)
        ops == set_action_id_ops(cursor, idfactory)
    IN /\ cursor # <<>>
       /\ idfactory + Len(cursor) <= MaxLog
       /\ idfactory' = increments(Len(cursor), idfactory)
       /\ metadata_coll' = [u \in DOMAIN metadata_coll |->
             IF \E i \in DOMAIN ops : ops[i].upload_id = u
             THEN [metadata_coll[u] EXCEPT
                      !.action_id = ops[CHOOSE i \in DOMAIN ops : ops[i].upload_id = u]._id,
                      !.valid = TRUE]
             ELSE metadata_coll[u]]
       /\ action_log' = bulk_write(action_log, ops)
       /\ UNCHANGED <<requests_coll, agent>>
       /\ UNCHANGED <<stateVars, sensorVars, laterVars>>

\* Validator.validate_upload on the stores st = [log, next, metadata]
validate_upload(st, upload_id, valid) ==
    IF ~ \E i \in DOMAIN st.log : st.log[i].upload_id = upload_id /\ st.log[i].action = "upload"
    THEN st
    ELSE IF st.metadata[upload_id].action_id = -1
    THEN st
    ELSE LET action == IF valid THEN "marked_valid" ELSE "marked_invalid"
             action_id == incrementor(st.next).value
         IN [log |-> insert_one(st.log, log_entry(action_id, action, upload_id, NoneList, -1, "None")),
             next |-> incrementor(st.next).next,
             metadata |-> [st.metadata EXCEPT ![upload_id].valid = valid]]

\* the loop of Validator.check_for_requests over the queue, oldest request first
RECURSIVE check_for_requests(_, _)
check_for_requests(st, requests) ==
    IF requests = <<>> THEN st
    ELSE check_for_requests(validate_upload(st, Head(requests).upload_id, Head(requests).valid),
                            Tail(requests))

\* a validate_upload request is put into the requests collection
AddRequest(upload_id, valid) ==
    /\ Len(requests_coll) < MaxRequests
    /\ requests_coll' = Append(requests_coll, [upload_id |-> upload_id, valid |-> valid])
    /\ UNCHANGED <<action_log, idfactory, metadata_coll, agent>>
    /\ UNCHANGED <<stateVars, sensorVars, laterVars>>

\* Validator.check_for_requests
CheckForRequests ==
    LET st == check_for_requests([log |-> action_log, next |-> idfactory, metadata |-> metadata_coll],
                                 requests_coll)
    IN /\ requests_coll # <<>>
       /\ idfactory + Len(requests_coll) <= MaxLog
       /\ action_log' = st.log
       /\ idfactory' = st.next
       /\ metadata_coll' = st.metadata
       /\ requests_coll' = <<>>
       /\ UNCHANGED agent
       /\ UNCHANGED <<stateVars, sensorVars, laterVars>>

\* AgentBase._handle_request, action 'set_result_info'
SetResultInfo(max_action_id, timespans) ==
    /\ agent' = IF max_action_id < 0 \/ Len(timespans) = 0 THEN agent
                ELSE [result_max_action_id |-> max_action_id, result_timespans |-> timespans,
                      result_upload_ids |-> NoneList]
    /\ UNCHANGED <<action_log, idfactory, metadata_coll, requests_coll>>
    /\ UNCHANGED <<stateVars, sensorVars, laterVars>>

\* AgentBase._handle_request, action 'set_result_info_direct'
SetResultInfoDirect(max_action_id, upload_ids) ==
    /\ agent' = IF max_action_id < 0 \/ Len(upload_ids) = 0 THEN agent
                ELSE [result_max_action_id |-> max_action_id, result_timespans |-> NoneList,
                      result_upload_ids |-> upload_ids]
    /\ UNCHANGED <<action_log, idfactory, metadata_coll, requests_coll>>
    /\ UNCHANGED <<stateVars, sensorVars, laterVars>>

\* perform_commit: the entry it inserts into the action log
perform_commit(log, analyzer_id, upload_ids, max_action_id, action_id) ==
    insert_one(log, log_entry(action_id, "analyze", "None", upload_ids, max_action_id, analyzer_id))

\* validate: 'no timespans given' unless timespans is a list with an item;
\* faulty says whether an observation of the run fails its checks
validate(timespans, faulty) == timespans = NoneList \/ Len(timespans) = 0 \/ faulty

\* action_ids_timespans_from_uploads: TRUE when every upload has its log entry
action_ids_timespans_from_uploads(upload_ids, log) ==
    /\ upload_ids # NoneList
    /\ \A k \in DOMAIN upload_ids :
          \E i \in DOMAIN log : log[i].action = "upload" /\ log[i].upload_ids = <<upload_ids[k]>>

\* commit of validator.py, called by Validator.check_for_analyzers with the
\* execution result that Supervisor._script_agent_done took from the agent's slots
Commit(faulty) ==
    /\ idfactory < MaxLog
    /\ IF validate(agent.result_timespans, faulty)
       THEN UNCHANGED <<action_log, idfactory>>
       ELSE /\ idfactory' = incrementor(idfactory).next
            /\ action_log' = insert_one(action_log,
                  log_entry(incrementor(idfactory).value, "analyze", "None", NoneList,
                            agent.result_max_action_id, "X"))
    /\ agent' = new_agent
    /\ UNCHANGED <<metadata_coll, requests_coll>>
    /\ UNCHANGED <<stateVars, sensorVars, laterVars>>

\* commit_normal of commit.py with the execution result of the run
CommitNormal(faulty) ==
    /\ idfactory < MaxLog
    /\ IF validate(agent.result_timespans, faulty)
       THEN UNCHANGED <<action_log, idfactory>>
       ELSE /\ idfactory' = incrementor(idfactory).next
            /\ action_log' = perform_commit(action_log, "X", NoneList, agent.result_max_action_id,
                                            incrementor(idfactory).value)
    /\ agent' = new_agent
    /\ UNCHANGED <<metadata_coll, requests_coll>>
    /\ UNCHANGED <<stateVars, sensorVars, laterVars>>

\* commit_direct of commit.py with the execution result of the run
CommitDirect(faulty) ==
    /\ idfactory < MaxLog
    /\ IF \/ ~ action_ids_timespans_from_uploads(agent.result_upload_ids, action_log)
          \/ faulty
       THEN UNCHANGED <<action_log, idfactory>>
       ELSE /\ idfactory' = incrementor(idfactory).next
            /\ action_log' = perform_commit(action_log, "X", agent.result_upload_ids,
                                            agent.result_max_action_id, incrementor(idfactory).value)
    /\ agent' = new_agent
    /\ UNCHANGED <<metadata_coll, requests_coll>>
    /\ UNCHANGED <<stateVars, sensorVars, laterVars>>

InitLogSpec ==
    /\ analyzers_coll = [a \in StateAnalyzers |-> create_analyzer({}, {"type0"})]
    /\ inflight = [c \in Callers |-> NoDoc]
    /\ last = NoCall
    /\ ordered = "None"
    /\ git_commit = "commit0"
    /\ InitLog
    /\ InitLater

NextLog ==
    \/ \E u \in Uploads : UploadCompletes(u)
    \/ CheckForUploads
    \/ \E u \in Uploads, valid \in BOOLEAN : AddRequest(u, valid)
    \/ CheckForRequests
    \/ \E m \in MaxActionIdInputs, t \in TimespansInputs : SetResultInfo(m, t)
    \/ \E m \in MaxActionIdInputs, u \in UploadIdsInputs : SetResultInfoDirect(m, u)
    \/ \E faulty \in BOOLEAN : Commit(faulty)
    \/ \E faulty \in BOOLEAN : CommitNormal(faulty)
    \/ \E faulty \in BOOLEAN : CommitDirect(faulty)

SpecLog == InitLogSpec /\ [][NextLog]_vars

-----------------------------------------------------------------------------
(* Claims settled under SpecLog *)

\* C4 (action-id monotonicity): of any two entries of the action log, of whatever
\* kind, the one inserted earlier has the smaller _id; no two entries share an _id.
C4_ActionIdMonotonicity ==
    \A i, j \in DOMAIN action_log : i < j => action_log[i]._id < action_log[j]._id

\* two uploads and a validity flip have been logged
C4_Witness ==
    \E i, j, k \in DOMAIN action_log :
        /\ i < j
        /\ action_log[i].action = "upload"
        /\ action_log[j].action = "upload"
        /\ action_log[k].action = "marked_invalid"

C6_MaxActionIdBelowId ==
    \A i \in DOMAIN action_log :
        action_log[i].action = "analyze" => action_log[i].max_action_id <= action_log[i]._id - 1

-----------------------------------------------------------------------------
(* sensitivity.py: the action sets and direct sensitivity.  The log entries  *)
(* are those that the loaders and commit_direct read: uploads are named in  *)
(* 'upload_ids'.                                                            *)

\* the commits the analyzer's repository may be at
Commits == {"commit0", "commit1"}

\* the input_formats of the direct analyzer X (its input_types are [])
input_formats == {"format0"}

\* an entry of the action log with the fields the sensitivity reads
action_doc(action_id, action, upload_ids, timespans, max_action_id, analyzer_id, output_formats, commit) ==
    [_id |-> action_id, action |-> action, upload_ids |-> upload_ids, timespans |-> timespans,
     max_action_id |-> max_action_id, analyzer_id |-> analyzer_id,
     output_formats |-> output_formats, git_commit |-> commit]

\* find(...).sort([('_id', DESCENDING)]) over the matching entries
RECURSIVE sort_descending(_)
sort_descending(docs) ==
    IF docs = {} THEN <<>>
    ELSE LET newest == CHOOSE d \in docs : \A e \in docs : e._id <= d._id
         IN <<newest>> \o sort_descending(docs \ {newest})

\* a filter in the place of takewhile: every entry of the given code
filter_same_code(docs, commit) == SelectSeq(docs, LAMBDA doc : doc.git_commit = commit)

\* itertools.takewhile
RECURSIVE takewhile_same_code(_, _)
takewhile_same_code(docs, commit) ==
    IF docs = <<>> \/ Head(docs).git_commit # commit THEN <<>>
    ELSE <<Head(docs)>> \o takewhile_same_code(Tail(docs), commit)

\* ActionSetMongo._load_input_actions
load_input_actions(log) ==
    sort_descending({log[i] : i \in {j \in DOMAIN log : log[j].output_formats \cap input_formats # {}}})

\* ActionSetMongo._load_output_actions
load_output_actions(log, analyzer_id, commit) ==
    takewhile_same_code(
        sort_descending({log[i] : i \in {j \in DOMAIN log : log[j].analyzer_id = analyzer_id}}),
        commit)

\* ActionSetMongo: input_max_action_id and output_max_action_id
input_max_action_id(input_actions) ==
    IF Len(input_actions) > 0 THEN input_actions[1]._id ELSE -1

output_max_action_id(output_actions) ==
    IF Len(output_actions) > 0 THEN output_actions[1].max_action_id ELSE -1

\* ActionSetBase.get_max_action_id
get_max_action_id(input_actions, output_actions) ==
    IF input_max_action_id(input_actions) >= output_max_action_id(output_actions)
    THEN input_max_action_id(input_actions)
    ELSE output_max_action_id(output_actions)

\* the first loop of direct(): the OrderedDict uploads_max_action_id as a list of
\* <<upload id, action id>> in the order in which the keys were first set
RECURSIVE uploads_max_action_id(_, _)
uploads_max_action_id(input_actions, dict) ==
    IF input_actions = <<>> THEN dict
    ELSE LET uid == Head(input_actions).upload_ids[1]
             aid == Head(input_actions)._id
             known == {k \in DOMAIN dict : dict[k][1] = uid}
             updated ==
                 IF known = {} THEN Append(dict, <<uid, aid>>)
                 ELSE IF dict[CHOOSE k \in known : TRUE][2] < aid
                      THEN [k \in DOMAIN dict |-> IF k \in known THEN <<uid, aid>> ELSE dict[k]]
                      ELSE dict
         IN uploads_max_action_id(Tail(input_actions), updated)

\* an upload counted as processed by the _id of the analysis
upload_processed_by_id(upload_id, upload_max_action_id, output_actions) ==
    \E k \in DOMAIN output_actions :
        /\ output_actions[k]._id >= upload_max_action_id
        /\ \E n \in DOMAIN output_actions[k].upload_ids : output_actions[k].upload_ids[n] = upload_id

\* an upload counted as processed only by an analysis that has seen a later action
upload_processed_strict(upload_id, upload_max_action_id, output_actions) ==
    \E k \in DOMAIN output_actions :
        /\ output_actions[k].max_action_id > upload_max_action_id
        /\ \E n \in DOMAIN output_actions[k].upload_ids : output_actions[k].upload_ids[n] = upload_id

\* the second loop of direct(): is the upload processed
upload_processed(upload_id, upload_max_action_id, output_actions) ==
    \E k \in DOMAIN output_actions :
        /\ output_actions[k].max_action_id >= upload_max_action_id
        /\ \E n \in DOMAIN output_actions[k].upload_ids : output_actions[k].upload_ids[n] = upload_id

\* the list comprehension of direct(): the keys that are not processed, in key order
RECURSIVE uploads_unprocessed(_, _)
uploads_unprocessed(dict, output_actions) ==
    IF dict = <<>> THEN <<>>
    ELSE (IF upload_processed(Head(dict)[1], Head(dict)[2], output_actions)
          THEN <<>> ELSE <<Head(dict)[1]>>)
         \o uploads_unprocessed(Tail(dict), output_actions)

\* ActionSetBase.direct
direct(input_actions, output_actions) ==
    <<get_max_action_id(input_actions, output_actions),
      uploads_unprocessed(uploads_max_action_id(input_actions, <<>>), output_actions)>>

\* ActionSetMongo(...).direct() for analyzer X at the given commit
direct_mongo(log, commit) ==
    direct(load_input_actions(log), load_output_actions(log, "X", commit))

-----------------------------------------------------------------------------
(* SpecDirect: uploads of format0 are logged, marked invalid and valid again, *)
(* the direct analyzer X is committed with the results its module reported,  *)
(* and its repository is set to another commit.                              *)

\* the uploads that have their 'upload' entry
uploaded(log) == {log[i].upload_ids[1] : i \in {j \in DOMAIN log : log[j].action = "upload"}}

\* the upload_ids lists a module may report: the non-empty lists of logged uploads
reported_upload_ids(log) ==
    {ids \in {<<"A">>, <<"B">>, <<"A", "B">>} : \A n \in DOMAIN ids : ids[n] \in uploaded(log)}

\* the max_action_id values the agent accepts: the ids the log may hold
AcceptedMaxActionIds == 0 .. (MaxDirectLog - 1)

\* the hours of the day at which timespans start and stop
TimePoints == {4, 6, 8, 10}

Intervals == {<<a, b>> : a \in TimePoints, b \in TimePoints} \ {<<a, b>> \in TimePoints \X TimePoints : a > b}

AllDay == <<4, 10>>

\* the log position of the upload's 'upload' entry
upload_action(log, u) ==
    CHOOSE i \in DOMAIN log : log[i].action = "upload" /\ log[i].upload_ids = <<u>>

InitDirect ==
    /\ analyzers_coll = [a \in StateAnalyzers |-> create_analyzer({}, {"type0"})]
    /\ inflight = [c \in Callers |-> NoDoc]
    /\ last = NoCall
    /\ ordered = "None"
    /\ git_commit = "commit0"
    /\ InitLog
    /\ InitLater

\* the document of the given action is appended to the action log
append_action(doc) ==
    /\ action_log' = insert_one(action_log, doc)
    /\ idfactory' = incrementor(idfactory).next
    /\ UNCHANGED <<metadata_coll, requests_coll, agent>>
    /\ UNCHANGED <<stateVars, sensorVars, laterVars>>

\* an upload with the given start and stop time is logged
LogUpload(u, timespan) ==
    /\ u \notin uploaded(action_log)
    /\ append_action(action_doc(incrementor(idfactory).value, "upload", <<u>>, <<timespan>>,
                                -1, "None", {"format0"}, "None"))

\* the validity of a logged upload is changed
LogMarked(u, valid) ==
    /\ u \in uploaded(action_log)
    /\ append_action(action_doc(incrementor(idfactory).value,
                                IF valid THEN "marked_valid" ELSE "marked_invalid",
                                <<u>>, action_log[upload_action(action_log, u)].timespans,
                                -1, "None", {"format0"}, "None"))

\* commit_direct: a run of X at the checked-out commit is committed
LogAnalyze(upload_ids, max_action_id) ==
    /\ upload_ids \in reported_upload_ids(action_log)
    /\ append_action(action_doc(incrementor(idfactory).value, "analyze", upload_ids,
                                [n \in DOMAIN upload_ids |->
                                    action_log[upload_action(action_log, upload_ids[n])].timespans[1]],
                                max_action_id, "X", {}, git_commit))

\* request_setrepo: another commit is checked out in X's working_dir
SetRepo(commit) ==
    /\ commit # git_commit
    /\ git_commit' = commit
    /\ UNCHANGED ordered
    /\ UNCHANGED <<stateVars, logVars, laterVars>>

NextDirect ==
    \/ \E u \in Uploads : Len(action_log) < MaxDirectLog /\ LogUpload(u, AllDay)
    \/ \E u \in Uploads, valid \in BOOLEAN :
          Len(action_log) < MaxDirectLog /\ LogMarked(u, valid)
    \/ \E ids \in reported_upload_ids(action_log), m \in AcceptedMaxActionIds :
          Len(action_log) < MaxDirectLog /\ LogAnalyze(ids, m)
    \/ \E c \in Commits : SetRepo(c)

SpecDirect == InitDirect /\ [][NextDirect]_vars

-----------------------------------------------------------------------------
(* Claims settled under SpecDirect *)

Range(seq) == {seq[i] : i \in DOMAIN seq}

Maximum(ids) == CHOOSE m \in ids : \A n \in ids : n <= m

\* the ids of the input actions that mention the upload
Mentions(log, u) ==
    {log[i]._id : i \in {j \in DOMAIN log :
        log[j].output_formats \cap input_formats # {} /\ log[j].upload_ids[1] = u}}

\* the positions of the analyze entries of X after which X has no entry of a commit
\* other than the given one
CountedOutputs(log, commit) ==
    {i \in DOMAIN log :
        /\ log[i].analyzer_id = "X"
        /\ \A j \in DOMAIN log :
              (log[j].analyzer_id = "X" /\ log[j]._id >= log[i]._id) => log[j].git_commit = commit}

Processed(log, commit, u) ==
    \E i \in CountedOutputs(log, commit) :
        /\ u \in Range(log[i].upload_ids)
        /\ log[i].max_action_id >= Maximum(Mentions(log, u))

Unprocessed(log, commit) ==
    {u \in Uploads : Mentions(log, u) # {} /\ ~ Processed(log, commit, u)}

\* C7 (direct sensitivity): direct() returns (m, list) where m is the larger of the
\* largest input action id and the max_action_id of the newest counted output action
\* (-1 where there is none), and list holds, once each and in the order in which the
\* input actions first show them, the uploads for which no counted output action both
\* lists the upload and has max_action_id >= the largest input action id that mentions
\* it.  An input action with an id above every such max_action_id puts its upload into
\* the list even when the output action's _id is larger.
C7_DirectSensitivity ==
    \A commit \in Commits :
        LET result == direct_mongo(action_log, commit)
            inputs == UNION {Mentions(action_log, u) : u \in Uploads}
            outputs == CountedOutputs(action_log, commit)
            in_max == IF inputs = {} THEN -1 ELSE Maximum(inputs)
            out_max == IF outputs = {} THEN -1
                       ELSE action_log[CHOOSE i \in outputs :
                               \A j \in outputs : action_log[j]._id <= action_log[i]._id].max_action_id
        IN /\ result[1] = IF in_max >= out_max THEN in_max ELSE out_max
           /\ Range(result[2]) = Unprocessed(action_log, commit)
           /\ \A p, q \in DOMAIN result[2] :
                 p < q => Maximum(Mentions(action_log, result[2][p]))
                             > Maximum(Mentions(action_log, result[2][q]))
           /\ \A u \in Uploads :
                 (\E id \in Mentions(action_log, u) :
                     \A i \in outputs :
                        u \in Range(action_log[i].upload_ids) => action_log[i].max_action_id < id)
                 => u \in Range(result[2])

\* A was marked invalid after the action that the analysis of A and B had seen last but
\* before that analysis was committed: A is unprocessed again, B is not
C7_Witness ==
    /\ \E i, k \in DOMAIN action_log :
          /\ action_log[i].action = "marked_invalid"
          /\ action_log[i].upload_ids = <<"A">>
          /\ action_log[k].action = "analyze"
          /\ action_log[k].git_commit = git_commit
          /\ action_log[k].upload_ids = <<"A", "B">>
          /\ action_log[k].max_action_id < action_log[i]._id
          /\ action_log[i]._id < action_log[k]._id
          /\ action_log[k].max_action_id >= Maximum(Mentions(action_log, "B"))
    /\ direct_mongo(action_log, git_commit)[2] = <<"A">>

\* the entry that a step has appended to the log
Appended(log, after) == Len(after) = Len(log) + 1 /\ SubSeq(after, 1, Len(log)) = log

\* C8 (direct monotonicity), as claimed: when an analyze action of the same analyzer
\* and code is appended that lists an unprocessed upload and has max_action_id >= the
\* largest input action id mentioning it, the upload leaves the unprocessed set; and a
\* processed upload stays out of the set unless the appended action is an input action
\* that mentions it.
C8_DirectMonotonicity_AsClaimed ==
    [][ Appended(action_log, action_log') =>
          \A commit \in Commits, u \in Uploads :
              LET new == action_log'[Len(action_log')]
                  before == Range(direct_mongo(action_log, commit)[2])
                  after == Range(direct_mongo(action_log', commit)[2])
              IN /\ ( /\ u \in before
                      /\ new.analyzer_id = "X" /\ new.git_commit = commit
                      /\ u \in Range(new.upload_ids)
                      /\ new.max_action_id >= Maximum(Mentions(action_log, u)) )
                    => u \notin after
                 /\ ( /\ Mentions(action_log, u) # {}
                      /\ u \notin before
                      /\ new._id \notin Mentions(action_log', u) )
                    => u \notin after
      ]_vars

\* C8 (direct monotonicity), amended: as above, but a processed upload stays out of
\* the set unless the appended action is an input action that mentions it or an
\* analyze action of the same analyzer with other code.
C8_DirectMonotonicity ==
    [][ Appended(action_log, action_log') =>
          \A commit \in Commits, u \in Uploads :
              LET new == action_log'[Len(action_log')]
                  before == Range(direct_mongo(action_log, commit)[2])
                  after == Range(direct_mongo(action_log', commit)[2])
              IN /\ ( /\ u \in before
                      /\ new.analyzer_id = "X" /\ new.git_commit = commit
                      /\ u \in Range(new.upload_ids)
                      /\ new.max_action_id >= Maximum(Mentions(action_log, u)) )
                    => u \notin after
                 /\ ( /\ Mentions(action_log, u) # {}
                      /\ u \notin before
                      /\ new._id \notin Mentions(action_log', u)
                      /\ ~ (new.analyzer_id = "X" /\ new.git_commit # commit) )
                    => u \notin after
      ]_vars

\* A was analysed by the code checked out, with max_action_id its upload's id, then B
\* was uploaded: A is out of the unprocessed set and B is in it
C8_Witness ==
    /\ \E i, j, k \in DOMAIN action_log :
          /\ i < j /\ j < k
          /\ action_log[i].action = "upload" /\ action_log[i].upload_ids = <<"A">>
          /\ action_log[j].action = "analyze" /\ action_log[j].upload_ids = <<"A">>
          /\ action_log[j].git_commit = git_commit
          /\ action_log[j].max_action_id = action_log[i]._id
          /\ action_log[k].action = "upload" /\ action_log[k].upload_ids = <<"B">>
    /\ direct_mongo(action_log, git_commit)[2] = <<"B">>

-----------------------------------------------------------------------------
(* timeline.py: intervals are pairs <<start, stop>> with start <= stop, a    *)
(* Timeline is the list of its intervals.                                    *)

\* merge(int1, int2): the list of the merged interval, empty where the code returns None
merge(int1, int2) ==
    LET a == int1[1]
        b == int1[2]
        A == int2[1]
        B == int2[2]
    IN  IF A <= a /\ a <= b /\ b <= B THEN <<<<A, B>>>>
        ELSE IF a <= A /\ A <= b /\ b <= B THEN <<<<a, B>>>>
        ELSE IF A <= a /\ a <= B /\ B <= b THEN <<<<A, b>>>>
        ELSE IF a <= A /\ A <= B /\ B <= b THEN <<<<a, b>>>>
        ELSE <<>>

\* a subtract that keeps nothing of an interval that lies apart from int2
subtract_apart(int1, int2) ==
    LET a == int1[1]
        b == int1[2]
        A == int2[1]
        B == int2[2]
    IN  IF A <= a /\ a <= b /\ b <= B THEN <<>>
        ELSE IF a <= A /\ A <= b /\ b <= B THEN <<<<a, A>>>>
        ELSE IF A <= a /\ a <= B /\ B <= b THEN <<<<B, b>>>>
        ELSE IF a <= A /\ A <= B /\ B <= b THEN <<<<a, A>>, <<B, b>>>>
        ELSE <<>>

\* a subtract that keeps only the left part of an interval that int2 splits
subtract_left(int1, int2) ==
    LET a == int1[1]
        b == int1[2]
        A == int2[1]
        B == int2[2]
    IN  IF A <= a /\ a <= b /\ b <= B THEN <<>>
        ELSE IF a <= A /\ A <= b /\ b <= B THEN <<<<a, A>>>>
        ELSE IF A <= a /\ a <= B /\ B <= b THEN <<<<B, b>>>>
        ELSE IF a <= A /\ A <= B /\ B <= b THEN <<<<a, A>>>>
        ELSE <<int1>>

\* subtract(int1, int2): what is left of int1
subtract(int1, int2) ==
    LET a == int1[1]
        b == int1[2]
        A == int2[1]
        B == int2[2]
    IN  IF A <= a /\ a <= b /\ b <= B THEN <<>>
        ELSE IF a <= A /\ A <= b /\ b <= B THEN <<<<a, A>>>>
        ELSE IF A <= a /\ a <= B /\ B <= b THEN <<<<B, b>>>>
        ELSE IF a <= A /\ A <= B /\ B <= b THEN <<<<a, A>>, <<B, b>>>>
        ELSE <<int1>>

\* list.remove: the list without its element at position k
remove_at(intervals, k) ==
    [n \in 1 .. (Len(intervals) - 1) |-> IF n < k THEN intervals[n] ELSE intervals[n + 1]]

\* an add_interval that merges the candidate with the first interval it can be merged
\* with and does not start the search again
add_interval_once(intervals, candidate) ==
    LET mergeable == {k \in DOMAIN intervals : merge(candidate, intervals[k]) # <<>>}
    IN  IF mergeable = {} THEN Append(intervals, candidate)
        ELSE LET first == CHOOSE k \in mergeable : \A other \in mergeable : k <= other
             IN Append(remove_at(intervals, first), merge(candidate, intervals[first])[1])

\* Timeline.add_interval: the candidate absorbs the first interval it can be merged
\* with and the search starts again; it is appended once none is left
RECURSIVE add_interval(_, _)
add_interval(intervals, candidate) ==
    LET mergeable == {k \in DOMAIN intervals : merge(candidate, intervals[k]) # <<>>}
    IN  IF mergeable = {} THEN Append(intervals, candidate)
        ELSE LET first == CHOOSE k \in mergeable : \A other \in mergeable : k <= other
             IN add_interval(remove_at(intervals, first), merge(candidate, intervals[first])[1])

\* a remove_interval that subtracts from the first interval only
remove_interval_first(intervals, candidate) ==
    IF intervals = <<>> THEN <<>>
    ELSE subtract(Head(intervals), candidate) \o Tail(intervals)

\* Timeline.remove_interval: chain.from_iterable of subtract over the intervals
RECURSIVE remove_interval(_, _)
remove_interval(intervals, candidate) ==
    IF intervals = <<>> THEN <<>>
    ELSE subtract(Head(intervals), candidate) \o remove_interval(Tail(intervals), candidate)

-----------------------------------------------------------------------------
(* sensitivity.py: basic sensitivity                                         *)

\* the list unsorted_actions of basic(): pairs <<to_add, action>>
unsorted_actions(input_actions, output_actions) ==
    [n \in DOMAIN input_actions |-> <<TRUE, input_actions[n]>>]
        \o [n \in DOMAIN output_actions |-> <<FALSE, output_actions[n]>>]

\* a stable sort by ascending _id run in the opposite direction
RECURSIVE sorted_newest_first(_)
sorted_newest_first(actions) ==
    IF actions = <<>> THEN <<>>
    ELSE LET k == CHOOSE i \in DOMAIN actions :
                     /\ \A j \in DOMAIN actions : actions[j][2]._id <= actions[i][2]._id
                     /\ \A j \in 1 .. (i - 1) : actions[j][2]._id < actions[i][2]._id
         IN <<actions[k]>> \o sorted_newest_first(remove_at(actions, k))

\* no sort at all
sorted_not(actions) == actions

\* sorted(unsorted_actions, key=lambda action: action[1]['_id'])
RECURSIVE sorted(_)
sorted(actions) ==
    IF actions = <<>> THEN <<>>
    ELSE LET k == CHOOSE i \in DOMAIN actions :
                     /\ \A j \in DOMAIN actions : actions[i][2]._id <= actions[j][2]._id
                     /\ \A j \in 1 .. (i - 1) : actions[i][2]._id < actions[j][2]._id
         IN <<actions[k]>> \o sorted(remove_at(actions, k))

\* the inner loop of basic() over the timespans of one action
RECURSIVE apply_timespans(_, _, _)
apply_timespans(todo_tl, to_add, timespans) ==
    IF timespans = <<>> THEN todo_tl
    ELSE apply_timespans(IF to_add THEN add_interval(todo_tl, Head(timespans))
                                   ELSE remove_interval(todo_tl, Head(timespans)),
                         to_add, Tail(timespans))

\* the outer loop of basic() over the sorted actions
RECURSIVE apply_actions(_, _)
apply_actions(todo_tl, sorted_actions) ==
    IF sorted_actions = <<>> THEN todo_tl
    ELSE apply_actions(apply_timespans(todo_tl, Head(sorted_actions)[1],
                                       Head(sorted_actions)[2].timespans),
                       Tail(sorted_actions))

\* ActionSetBase.basic
basic(input_actions, output_actions) ==
    <<get_max_action_id(input_actions, output_actions),
      apply_actions(<<>>, sorted(unsorted_actions(input_actions, output_actions)))>>

\* ActionSetMongo(...).basic() for analyzer X at the given commit
basic_mongo(log, commit) ==
    basic(load_input_actions(log), load_output_actions(log, "X", commit))

-----------------------------------------------------------------------------
(* SpecBasic: uploads of format0 with their timespans are logged and marked, *)
(* the basic analyzer X is committed with the timespans its module reported, *)
(* and its repository is set to another commit.                              *)

InitBasic == InitDirect

\* the timespans of the uploads: a measurement campaign stops after it has started
UploadTimespans == {timespan \in Intervals : timespan[1] < timespan[2]}

\* commit_normal: a run of X at the checked-out commit is committed; the module
\* reports the newest action id it has seen
LogAnalyzeNormal(timespan) ==
    /\ action_log # <<>>
    /\ append_action(action_doc(incrementor(idfactory).value, "analyze", NoneList,
                                <<timespan>>, idfactory - 1, "X", {}, git_commit))

NextBasic ==
    \/ \E u \in Uploads, timespan \in UploadTimespans :
          /\ Len(action_log) < MaxBasicLog
          /\ u = "B" => "A" \in uploaded(action_log)
          /\ LogUpload(u, timespan)
    \/ \E u \in Uploads : Len(action_log) < MaxBasicLog /\ LogMarked(u, FALSE)
    \/ \E timespan \in Intervals : Len(action_log) < MaxBasicLog /\ LogAnalyzeNormal(timespan)
    \/ \E commit \in Commits : SetRepo(commit)

SpecBasic == InitBasic /\ [][NextBasic]_vars

-----------------------------------------------------------------------------
(* Claims settled under SpecBasic *)

\* the stretches between two neighbouring hours
Segments == {s \in Intervals : s[2] = s[1] + 2}

\* one of the timespans holds the whole interval
Covers(timespans, r) ==
    \E n \in DOMAIN timespans : timespans[n][1] <= r[1] /\ r[2] <= timespans[n][2]

\* one of the timespans shares a moment with the interval
Intersects(timespans, r) ==
    \E n \in DOMAIN timespans : timespans[n][1] <= r[2] /\ r[1] <= timespans[n][2]

\* the positions of the input actions of X
Inputs(log) == {i \in DOMAIN log : log[i].output_formats \cap input_formats # {}}

\* the rule of basic(): the larger of the newest input id and the newest counted
\* output's max_action_id, and a residual of intervals that hold exactly the
\* stretches for which the newest action covering them is an input action
BasicRule(log, commit) ==
    \A result \in {basic_mongo(log, commit)}, inputs \in {Inputs(log)},
       outputs \in {CountedOutputs(log, commit)} :
    LET in_max == IF inputs = {} THEN -1 ELSE Maximum({log[i]._id : i \in inputs})
        out_max == IF outputs = {} THEN -1
                   ELSE log[CHOOSE i \in outputs :
                           \A j \in outputs : log[j]._id <= log[i]._id].max_action_id
    IN /\ result[1] = IF in_max >= out_max THEN in_max ELSE out_max
       /\ {s \in Segments : Covers(result[2], s)}
            = {s \in Segments :
                  \E i \in inputs :
                      /\ Covers(log[i].timespans, s)
                      /\ \A o \in outputs :
                            Covers(log[o].timespans, s) => log[o]._id < log[i]._id}
       /\ \A n \in DOMAIN result[2] : result[2][n][1] < result[2][n][2]

\* the log of the worked example: upload [04,08] id 0, analyze [04,08] id 1 by the
\* code checked out, upload [06,10] id 2
ExampleLog ==
    /\ Len(action_log) = 3
    /\ action_log[1].action = "upload" /\ action_log[1].timespans = <<<<4, 8>>>>
    /\ action_log[1]._id = 0
    /\ action_log[2].action = "analyze" /\ action_log[2].timespans = <<<<4, 8>>>>
    /\ action_log[2]._id = 1 /\ action_log[2].max_action_id = 0
    /\ action_log[2].git_commit = git_commit
    /\ action_log[3].action = "upload" /\ action_log[3].timespans = <<<<6, 10>>>>
    /\ action_log[3]._id = 2

\* C9 (basic sensitivity), as claimed: basic() returns (max_action_id, residual), the
\* residual being what is left after the input and output actions were processed in
\* ascending log id, inputs adding their timespans and outputs removing theirs, so that
\* an output removes only what older inputs contributed; and the log upload [04,08]
\* id 0, analyze [04,08] id 1, upload [06,10] id 2 gives [(08,10)].
C9_BasicSensitivity_AsClaimed ==
    /\ \A commit \in Commits : BasicRule(action_log, commit)
    /\ ExampleLog => basic_mongo(action_log, git_commit) = <<2, <<<<8, 10>>>>>>

\* C9 (basic sensitivity), amended: as above, but the log upload [04,08] id 0, analyze
\* [04,08] id 1, upload [06,10] id 2 gives [(06,10)]: the newer upload stays whole.
C9_BasicSensitivity ==
    /\ \A commit \in Commits : BasicRule(action_log, commit)
    /\ ExampleLog => basic_mongo(action_log, git_commit) = <<2, <<<<6, 10>>>>>>

\* the log of the worked example has been written and the residual is the whole
\* timespan of the newer upload
C9_Witness ==
    /\ ExampleLog
    /\ basic_mongo(action_log, git_commit)[2] = <<<<6, 10>>>>

\* C10 (basic completeness), as claimed: for every residual interval of basic() there
\* is an input action whose timespans intersect it, and no output action of the current
\* code covers it.
C10_BasicCompleteness_AsClaimed ==
    \A commit \in Commits :
        \A residual \in {basic_mongo(action_log, commit)[2]} :
           \A n \in DOMAIN residual :
              /\ \E i \in Inputs(action_log) : Intersects(action_log[i].timespans, residual[n])
              /\ ~ \E o \in DOMAIN action_log :
                      /\ action_log[o].analyzer_id = "X"
                      /\ action_log[o].git_commit = commit
                      /\ Covers(action_log[o].timespans, residual[n])

\* C10 (basic completeness), amended: for every residual interval of basic() there is
\* an input action whose timespans intersect it, and every counted output action of
\* the current code that covers it is older than an input action whose timespans
\* intersect it.
C10_BasicCompleteness ==
    \A commit \in Commits :
        \A residual \in {basic_mongo(action_log, commit)[2]} :
           \A n \in DOMAIN residual :
              /\ \E i \in Inputs(action_log) : Intersects(action_log[i].timespans, residual[n])
              /\ \A o \in CountedOutputs(action_log, commit) :
                    Covers(action_log[o].timespans, residual[n]) =>
                        \E i \in Inputs(action_log) :
                            /\ Intersects(action_log[i].timespans, residual[n])
                            /\ action_log[o]._id < action_log[i]._id

\* an interval is left although an output action of the code checked out covers it: a
\* newer input action has brought it back
C10_Witness ==
    LET residual == basic_mongo(action_log, git_commit)[2]
    IN \E n \in DOMAIN residual, o \in CountedOutputs(action_log, git_commit) :
          /\ residual[n][1] < residual[n][2]
          /\ Covers(action_log[o].timespans, residual[n])
          /\ \E i \in Inputs(action_log) :
                /\ Covers(action_log[i].timespans, residual[n])
                /\ action_log[o]._id < action_log[i]._id

-----------------------------------------------------------------------------
(* commit.py: the commit of a run's scratch collection into the observations. *)
(* An observation is [content, action_ids]: content stands for the fields of *)
(* VALIDATION_COMPARE_FIELDS (validate lets only documents of X through),   *)
(* action_ids lists the newest entry first.                                  *)

\* the contents a module may write: two values at hour 4 and one at hour 8
Contents ==
    {[analyzer_id |-> "X", time |-> t, value |-> v] : t \in {4}, v \in {"v0", "v1"}}
    \cup {[analyzer_id |-> "X", time |-> 8, value |-> "v0"]}

\* the scratch collections of a run in their find() order: up to two documents,
\* equal ones included
ScratchInputs == {<<>>} \cup {<<c>> : c \in Contents} \cup {<<c, d>> : c, d \in Contents}

\* the timespans lists a run may report
CommitTimespans == {<<<<4, 6>>>>, <<<<4, 10>>>>}

\* validate: a document's time has to lie within one of the timespans
time_within(time, timespans) ==
    \E n \in DOMAIN timespans : timespans[n][1] <= time /\ time <= timespans[n][2]

\* a candidates_query without the analyzer_id
candidates_of_all(coll, timespans) ==
    {i \in DOMAIN coll : time_within(coll[i].content.time, timespans)}

\* output_coll.find(candidates_query): the _ids of the observations of X in the
\* timespans
candidates(coll, timespans) ==
    {i \in DOMAIN coll :
        coll[i].content.analyzer_id = "X" /\ time_within(coll[i].content.time, timespans)}

\* find_counterpart: the position of the first scratch document equal to the
\* candidate, 0 where the code returns None
find_counterpart(candidate, temp) ==
    IF \E j \in DOMAIN temp : temp[j] = candidate.content
    THEN CHOOSE j \in DOMAIN temp :
            temp[j] = candidate.content /\ \A h \in 1 .. (j - 1) : temp[h] # candidate.content
    ELSE 0

\* mark_ops: the output_id of every scratch document (0: the field is not set); the
\* updates run in the order of the candidates, so the last one stays
mark_ops(coll, temp, timespans) ==
    [j \in DOMAIN temp |->
        LET marking == {i \in candidates(coll, timespans) : find_counterpart(coll[i], temp) = j}
        IN IF marking = {} THEN 0 ELSE CHOOSE i \in marking : \A h \in marking : h <= i]

\* update_many with candidates_query_valid: {id, valid: False} is pushed at position 0
push_false(coll, timespans, action_id) ==
    [i \in DOMAIN coll |->
        IF i \in candidates(coll, timespans) /\ coll[i].action_ids[1].valid
        THEN [coll[i] EXCEPT !.action_ids = <<[id |-> action_id, valid |-> FALSE]>> \o @]
        ELSE coll[i]]

\* a marked scratch document whose observation only gets the $push
update_kept_push_only(obs, action_id) ==
    [obs EXCEPT !.action_ids = IF ~ obs.action_ids[1].valid
                               THEN <<[id |-> action_id, valid |-> TRUE]>> \o @
                               ELSE @]

\* a $pop that takes the last entry instead of the first
update_kept_pop_last(obs, action_id) ==
    [obs EXCEPT !.action_ids = IF obs.action_ids[1].id = action_id /\ Len(@) >= 2
                               THEN SubSeq(@, 2, Len(@) - 1) \o <<@[1]>>
                               ELSE IF ~ @[1].valid
                                    THEN <<[id |-> action_id, valid |-> TRUE]>> \o @
                                    ELSE @]

\* the two UpdateOne of a marked scratch document, in their order: $pop of the first
\* entry, then $push of {id, valid: True}
update_kept(obs, action_id) ==
    LET popped == IF /\ obs.action_ids[1].id = action_id
                     /\ Len(obs.action_ids) >= 2
                     /\ obs.action_ids[2].valid
                  THEN Tail(obs.action_ids) ELSE obs.action_ids
    IN [obs EXCEPT !.action_ids = IF ~ popped[1].valid
                                  THEN <<[id |-> action_id, valid |-> TRUE]>> \o popped
                                  ELSE popped]

\* bulk_write of create_output_ops over the scratch documents from position j on
RECURSIVE create_output_ops(_, _, _, _, _)
create_output_ops(coll, temp, output_id, action_id, j) ==
    IF j > Len(temp) THEN coll
    ELSE create_output_ops(
            IF output_id[j] # 0
            THEN [coll EXCEPT ![output_id[j]] = update_kept(@, action_id)]
            ELSE Append(coll, [content |-> temp[j],
                               action_ids |-> <<[id |-> action_id, valid |-> TRUE]>>]),
            temp, output_id, action_id, j + 1)

\* perform_commit: what it makes of the observations collection
commit_observations(coll, temp, timespans, action_id) ==
    create_output_ops(push_false(coll, timespans, action_id), temp,
                      mark_ops(coll, temp, timespans), action_id, 1)

-----------------------------------------------------------------------------
(* SpecCommit: the module of the normal analyzer X runs and leaves a scratch *)
(* collection, and the Validator commits it.                                 *)

InitCommit ==
    /\ analyzers_coll = [a \in StateAnalyzers |-> create_analyzer({}, {"type0"})]
    /\ inflight = [c \in Callers |-> NoDoc]
    /\ last = NoCall
    /\ ordered = "None"
    /\ git_commit = "commit0"
    /\ InitLog
    /\ InitLater

\* a run of the module: it fills its scratch collection and reports its timespans
RunModule(docs, timespans) ==
    /\ temporary_coll.timespans = NoneList
    /\ idfactory < MaxCommits
    /\ temporary_coll' = [docs |-> docs, timespans |-> timespans]
    /\ UNCHANGED <<stateVars, sensorVars, logVars, output_coll, last_commit, pipeVars, timelines, otherVars>>

\* commit_normal with the scratch collection of the run; the next run has a scratch
\* collection of its own
CommitRun ==
    /\ temporary_coll.timespans # NoneList
    /\ IF validate(temporary_coll.timespans,
                   \E j \in DOMAIN temporary_coll.docs :
                       ~ time_within(temporary_coll.docs[j].time, temporary_coll.timespans))
       THEN UNCHANGED <<action_log, idfactory, output_coll, last_commit>>
       ELSE /\ idfactory' = incrementor(idfactory).next
            /\ last_commit' = temporary_coll
            /\ action_log' = perform_commit(action_log, "X", NoneList, 0,
                                            incrementor(idfactory).value)
            /\ output_coll' = commit_observations(output_coll, temporary_coll.docs,
                                                  temporary_coll.timespans,
                                                  incrementor(idfactory).value)
    /\ temporary_coll' = [docs |-> <<>>, timespans |-> NoneList]
    /\ UNCHANGED <<metadata_coll, requests_coll, agent>>
    /\ UNCHANGED <<stateVars, sensorVars, pipeVars, timelines, otherVars>>

NextCommit ==
    \/ \E docs \in ScratchInputs, timespans \in CommitTimespans : RunModule(docs, timespans)
    \/ CommitRun

SpecCommit == InitCommit /\ [][NextCommit]_vars

-----------------------------------------------------------------------------
(* Claims settled under SpecCommit *)

\* a step is a successful commit: it has drawn an action id
Committed == temporary_coll.timespans # NoneList /\ idfactory' = idfactory + 1

\* the observation's content is among the scratch documents of the run
InScratch(obs) == \E j \in DOMAIN temporary_coll.docs : temporary_coll.docs[j] = obs.content

C12_CommitIdempotence ==
    [][ (Committed /\ last_commit.timespans # NoneList /\ last_commit = temporary_coll) =>
          /\ Len(output_coll') = Len(output_coll)
          /\ \A i \in DOMAIN output_coll :
                (InScratch(output_coll[i]) /\ output_coll[i].action_ids[1].valid)
                    => output_coll'[i] = output_coll[i]
          /\ Len(action_log') = Len(action_log) + 1
      ]_vars

\* C13 (append-only history): over every step each observation keeps its place and
\* content, and the action_ids it had are a suffix of the ones it has afterwards; in
\* between, the first write of a commit leaves them as they were or with {k, false}
\* in front, which is the only entry the commit removes again.
C13_HistoryAppendOnly ==
    [][ /\ \A i \in DOMAIN output_coll :
              /\ i \in DOMAIN output_coll'
              /\ output_coll'[i].content = output_coll[i].content
              /\ LET old == output_coll[i].action_ids
                     new == output_coll'[i].action_ids
                 IN /\ Len(new) >= Len(old)
                    /\ SubSeq(new, Len(new) - Len(old) + 1, Len(new)) = old
        /\ Committed =>
              LET pushed == push_false(output_coll, temporary_coll.timespans, idfactory)
              IN \A i \in DOMAIN output_coll :
                    /\ pushed[i].action_ids \in
                          {output_coll[i].action_ids,
                           <<[id |-> idfactory, valid |-> FALSE]>> \o output_coll[i].action_ids}
                    /\ output_coll'[i].action_ids \in
                          {output_coll[i].action_ids, pushed[i].action_ids,
                           <<[id |-> idfactory, valid |-> TRUE]>> \o output_coll[i].action_ids}
      ]_vars

\* an observation that was deprecated by the second commit has gone through the third
\* with the two entries it had
C13_Witness ==
    /\ idfactory = MaxCommits
    /\ \E i \in DOMAIN output_coll :
          /\ Len(output_coll[i].action_ids) = 2
          /\ output_coll[i].action_ids[1] = [id |-> 1, valid |-> FALSE]

-----------------------------------------------------------------------------
(* SpecPipeline: the loops of Sensor, Supervisor and Validator tick over the  *)
(* direct analyzer X while uploads are logged and admin requests are served.  *)
(* An exception that leaves a loop ends it.                                   *)

MaxAgents == 2

\* the tokens os.urandom may produce
Tokens == {"t0", "t1"}

\* ModuleAgent / OnlineAgent: a new agent with its token and empty result slots
create_agent(kind, token) ==
    [kind |-> kind, token |-> token, result_max_action_id |-> -1,
     result_timespans |-> NoneList, result_upload_ids |-> NoneList]

\* AnalyzerState.transition_to_error as one step: the store afterwards and the way
\* the call ended
to_error(coll, domain, analyzer_id, reason) ==
    IF is_in_my_domain(domain, coll[analyzer_id])
    THEN [coll |-> coll, outcome |-> "TransitionFailed"]
    ELSE [coll |-> error_update(coll, domain, analyzer_id, reason), outcome |-> "ok"]

\* AnalyzerState.check_wish with the calls it makes: the store afterwards, whether
\* the wish was taken up, and the way the call ended
honour_wish(coll, domain, analyzer_id, granting_wish) ==
    LET analyzer == coll[analyzer_id]
    IN IF ~ check_wish(domain, analyzer, granting_wish)
       THEN [coll |-> coll, honoured |-> FALSE, outcome |-> "None"]
       ELSE IF granting_wish = "disable"
       THEN [coll |-> transition_update(coll, domain, analyzer_id, analyzer.state, "disabled"),
             honoured |-> TRUE,
             outcome |-> transition_outcome(coll, domain, analyzer_id, analyzer.state, "disabled")]
       ELSE [coll |-> to_error(coll, domain, analyzer_id, "cancelled").coll,
             honoured |-> TRUE,
             outcome |-> to_error(coll, domain, analyzer_id, "cancelled").outcome]

\* a call of the AnalyzerState interface by a loop: an exception ends the loop
loop_call(domain, observed, outcome) ==
    /\ last' = [domain |-> domain, observed |-> observed, outcome |-> outcome]
    /\ crashed' = IF outcome = "ok" THEN crashed ELSE crashed \cup {domain}

InitPipeline ==
    /\ analyzers_coll \in [StateAnalyzers ->
           {[create_analyzer({}, {"type0"}) EXCEPT !.state = s] :
                s \in {"disabled", "sensing", "planned", "executed"}}]
    /\ inflight = [c \in Callers |-> NoDoc]
    /\ last = NoCall
    /\ ordered = "None"
    /\ git_commit = "commit0"
    /\ InitLog
    /\ InitLater

\* admin.request_disable / request_cancel: request_wish, then check_wish as admin
RequestWish(analyzer_id, wish) ==
    LET wished == [analyzers_coll EXCEPT ![analyzer_id].wish = wish]
        call == honour_wish(wished, "admin", analyzer_id, wish)
    IN /\ analyzers_coll' = call.coll
       /\ last' = IF call.honoured
                  THEN [domain |-> "admin", observed |-> wished[analyzer_id].state,
                        outcome |-> call.outcome]
                  ELSE last
       /\ UNCHANGED inflight
       /\ UNCHANGED <<sensorVars, logVars, output_coll, temporary_coll, last_commit, pipeVars, timelines, otherVars>>

\* admin.request_enable
RequestEnable(analyzer_id) ==
    LET state == analyzers_coll[analyzer_id].state
    IN /\ state \in {"error", "disabled"}
       /\ analyzers_coll' = transition_update(analyzers_coll, "admin", analyzer_id, state, "sensing")
       /\ last' = [domain |-> "admin", observed |-> state,
                   outcome |-> transition_outcome(analyzers_coll, "admin", analyzer_id,
                                                  state, "sensing")]
       /\ UNCHANGED inflight
       /\ UNCHANGED <<sensorVars, logVars, output_coll, temporary_coll, last_commit, pipeVars, timelines, otherVars>>

\* Sensor.check over the sensing analyzer
SensorTick(analyzer_id) ==
    LET analyzer == analyzers_coll[analyzer_id]
        disable == honour_wish(analyzers_coll, "sensor", analyzer_id, "disable")
        cancel == honour_wish(analyzers_coll, "sensor", analyzer_id, "cancel")
        planned == transition_outcome(analyzers_coll, "sensor", analyzer_id, "sensing", "planned")
    IN /\ "sensor" \notin crashed
       /\ analyzer_id \in sensing_analyzers(analyzers_coll)
       /\ IF disable.honoured
          THEN /\ analyzers_coll' = disable.coll
               /\ loop_call("sensor", "sensing", disable.outcome)
               /\ UNCHANGED ordered
          ELSE IF cancel.honoured
          THEN /\ analyzers_coll' = cancel.coll
               /\ loop_call("sensor", "sensing", cancel.outcome)
               /\ UNCHANGED ordered
          ELSE IF sensor_skips(analyzers_coll, analyzer)
          THEN UNCHANGED <<analyzers_coll, last, crashed, ordered>>
          ELSE IF "direct" \notin DOMAIN analyzer
          THEN /\ loop_call("sensor", "sensing", "KeyError")
               /\ UNCHANGED <<analyzers_coll, ordered>>
          ELSE IF (IF analyzer.direct
                   THEN direct_mongo(action_log, git_commit)[2] = <<>>
                   ELSE basic_mongo(action_log, git_commit)[2] = <<>>)
          THEN UNCHANGED <<analyzers_coll, last, crashed, ordered>>
          ELSE /\ analyzers_coll' = transition_update(analyzers_coll, "sensor", analyzer_id,
                                                      "sensing", "planned")
               /\ loop_call("sensor", "sensing", planned)
               /\ ordered' = analyzer_id
       /\ UNCHANGED <<inflight, git_commit, agents, reply, conn>>
       /\ UNCHANGED <<logVars, output_coll, temporary_coll, last_commit, timelines, otherVars>>

\* Supervisor.check_for_work over the planned analyzer
SupervisorTick(analyzer_id, token) ==
    LET cancel == honour_wish(analyzers_coll, "supervisor", analyzer_id, "cancel")
        executing == transition_outcome(analyzers_coll, "supervisor", analyzer_id,
                                        "planned", "executing")
    IN /\ "supervisor" \notin crashed
       /\ Len(agents) < MaxAgents
       /\ analyzers_coll[analyzer_id].state = "planned"
       /\ IF cancel.honoured
          THEN /\ analyzers_coll' = cancel.coll
               /\ loop_call("supervisor", "planned", cancel.outcome)
               /\ UNCHANGED <<agents, temporary_db>>
          ELSE /\ agents' = Append(agents, create_agent("module", token))
               /\ temporary_db' = temporary_db \cup {Len(agents) + 1}
               /\ analyzers_coll' = transition_update(analyzers_coll, "supervisor", analyzer_id,
                                                      "planned", "executing")
               /\ loop_call("supervisor", "planned", executing)
       /\ UNCHANGED <<inflight, reply, conn>>
       /\ UNCHANGED <<sensorVars, logVars, output_coll, temporary_coll, last_commit, timelines>>
       /\ UNCHANGED <<observation, execution_result, committing>>

\* Validator.check_for_analyzers over the executed analyzer: the execution result
\* is what the agent's slots held when the module was done
ValidatorTick(analyzer_id) ==
    LET cancel == honour_wish(analyzers_coll, "validator", analyzer_id, "cancel")
        validating == transition_outcome(analyzers_coll, "validator", analyzer_id,
                                         "executed", "validating")
        taken == transition_update(analyzers_coll, "validator", analyzer_id,
                                   "executed", "validating")
        failed == to_error(taken, "validator", analyzer_id, "errors")
    IN /\ "validator" \notin crashed
       /\ analyzers_coll[analyzer_id].state = "executed"
       /\ IF cancel.honoured
          THEN /\ analyzers_coll' = cancel.coll
               /\ loop_call("validator", "executed", cancel.outcome)
               /\ UNCHANGED <<action_log, idfactory>>
          ELSE IF validating # "ok"
          THEN /\ loop_call("validator", "executed", validating)
               /\ UNCHANGED <<analyzers_coll, action_log, idfactory>>
          ELSE IF validate(agent.result_timespans, FALSE)
          THEN /\ analyzers_coll' = failed.coll
               /\ loop_call("validator", "validating", failed.outcome)
               /\ UNCHANGED <<action_log, idfactory>>
          ELSE /\ idfactory' = incrementor(idfactory).next
               /\ action_log' = insert_one(action_log,
                     action_doc(incrementor(idfactory).value, "analyze", agent.result_upload_ids,
                                agent.result_timespans, agent.result_max_action_id,
                                analyzer_id, {}, git_commit))
               /\ analyzers_coll' = transition_update(taken, "validator", analyzer_id,
                                                      "validating", "sensing")
               /\ loop_call("validator", "validating",
                            transition_outcome(taken, "validator", analyzer_id,
                                               "validating", "sensing"))
       /\ UNCHANGED <<inflight, agents, reply, conn>>
       /\ UNCHANGED <<metadata_coll, requests_coll, agent>>
       /\ UNCHANGED <<sensorVars, output_coll, temporary_coll, last_commit, timelines, otherVars>>

NextPipeline ==
    \/ \E u \in Uploads : LogUpload(u, AllDay)
    \/ \E a \in StateAnalyzers, wish \in {"disable", "cancel"} : RequestWish(a, wish)
    \/ \E a \in StateAnalyzers : RequestEnable(a)
    \/ \E a \in StateAnalyzers : SensorTick(a)
    \/ \E a \in StateAnalyzers, token \in Tokens : SupervisorTick(a, token)
    \/ \E a \in StateAnalyzers : ValidatorTick(a)

\* every loop ticks again after its sleep
SpecPipeline ==
    /\ InitPipeline
    /\ [][NextPipeline]_vars
    /\ WF_vars(\E a \in StateAnalyzers : SensorTick(a))
    /\ WF_vars(\E a \in StateAnalyzers, token \in Tokens : SupervisorTick(a, token))
    /\ WF_vars(\E a \in StateAnalyzers : ValidatorTick(a))

-----------------------------------------------------------------------------
(* Claims settled under SpecPipeline *)

\* the scenario of the end-to-end example: X is sensing without a wish, the log
\* holds the upload of A with id 0 and nothing else, and every loop is running
Scenario ==
    /\ analyzers_coll["X"].state = "sensing"
    /\ analyzers_coll["X"].wish = "None"
    /\ Len(action_log) = 1
    /\ action_log[1]._id = 0
    /\ action_log[1].action = "upload"
    /\ action_log[1].upload_ids = <<"A">>
    /\ crashed = {}

\* C14 (end to end): from the scenario, where direct sensitivity returns (0, [A]),
\* the loops lead to a state in which the log holds the analyze entry with the
\* fresh id 1 for A, X is back in sensing and direct sensitivity returns (1, []).
C14_EndToEnd ==
    /\ [](Scenario => direct_mongo(action_log, git_commit) = <<0, <<"A">>>>)
    /\ Scenario ~>
          /\ \E i \in DOMAIN action_log :
                 /\ action_log[i].action = "analyze"
                 /\ action_log[i]._id = 1
                 /\ action_log[i].upload_ids = <<"A">>
          /\ analyzers_coll["X"].state = "sensing"
          /\ direct_mongo(action_log, git_commit) = <<1, <<>>>>

\* C15 (wishes before work): a Sensor tick moves a sensing analyzer with wish disable
\* to disabled and one with wish cancel to error, and plans neither; a Supervisor
\* tick moves a planned analyzer with wish cancel to error and creates no agent; a
\* Validator tick moves an executed analyzer with wish cancel to error and commits
\* nothing.
C15_WishBeforeWork ==
    [][ \A a \in StateAnalyzers :
          /\ (SensorTick(a) /\ analyzers_coll[a].wish = "disable")
                 => analyzers_coll'[a].state = "disabled"
          /\ (SensorTick(a) /\ analyzers_coll[a].wish = "cancel")
                 => analyzers_coll'[a].state = "error"
          /\ ((\E token \in Tokens : SupervisorTick(a, token)) /\ analyzers_coll[a].wish = "cancel")
                 => (analyzers_coll'[a].state = "error" /\ agents' = agents)
          /\ (ValidatorTick(a) /\ analyzers_coll[a].wish = "cancel")
                 => (analyzers_coll'[a].state = "error" /\ action_log' = action_log)
      ]_vars

\* C16 (honoured wish is cleared): a tick of the loop in whose domain the analyzer
\* is finds the wish, honours it and leaves the record without a wish, so that the
\* wish is not honoured a second time after the analyzer has been enabled again.
C16_WishCleared ==
    [][ \A a \in StateAnalyzers :
          (/\ analyzers_coll[a].wish # "None"
           /\ \/ SensorTick(a)
              \/ \E token \in Tokens : SupervisorTick(a, token)
              \/ ValidatorTick(a))
             => analyzers_coll'[a].wish = "None"
      ]_vars

-----------------------------------------------------------------------------
(* SpecAgents: the Supervisor creates and deletes agents, and connections     *)
(* hand it requests with any identifier, token, action and payload.           *)

\* an agent that has been deleted from Supervisor.agents
NoAgent == create_agent("deleted", "None")

MaxItems == 1

\* payload['max_action_id']: an integer, or a value int() does not convert
MaxActionIdPayloads ==
    {[convertible |-> TRUE, value |-> v] : v \in -1..0} \cup {[convertible |-> FALSE, value |-> 0]}

\* the items of payload['timespans']: a pair of ISO strings, an item that is no
\* pair of strings, a pair of strings that dateutil does not parse
TimespanItems == {"04:00/06:00", "no_pair", "no_date"}

\* the items of payload['upload_ids']: the hex string of an ObjectId, a string
\* that is none, a value that is no string
UploadIdItems == {"A", "no_hex", "no_str"}

\* the lists of at most MaxItems of the given items
Lists(items) == UNION {[1..n -> items] : n \in 0..MaxItems}

\* the requests of SupervisorClient: the result reports carry max_action_id and
\* their list, the other actions a payload of None
Requests(identifiers) ==
    {[identifier |-> i, token |-> t, action |-> "set_result_info",
      payload |-> [max_action_id |-> m, list |-> l]] :
        i \in identifiers, t \in Tokens, m \in MaxActionIdPayloads, l \in Lists(TimespanItems)}
    \cup {[identifier |-> i, token |-> t, action |-> "set_result_info_direct",
           payload |-> [max_action_id |-> m, list |-> l]] :
        i \in identifiers, t \in Tokens, m \in MaxActionIdPayloads, l \in Lists(UploadIdItems)}
    \cup {[identifier |-> i, token |-> t, action |-> a, payload |-> NoPayload] :
        i \in identifiers, t \in Tokens, a \in {"get_info", "bogus"}}

\* dateutil.parser.parse of both strings of each pair
parse_timespans(list) == [n \in DOMAIN list |-> "(04:00, 06:00)"]

\* the exception of [ObjectId(upload_id) for upload_id in upload_ids_str]: the one
\* of the first item that is no hex string ("None": none is raised)
RECURSIVE object_ids_error(_)
object_ids_error(list) ==
    IF list = <<>> THEN "None"
    ELSE IF Head(list) = "no_str" THEN "TypeError"
    ELSE IF Head(list) = "no_hex" THEN "InvalidId"
    ELSE object_ids_error(Tail(list))

\* AgentBase._handle_request: the agent afterwards and the response; an exception
\* that leaves the function stands in the place of the response
handle_request(ag, action, payload) ==
    IF action = "get_info" THEN [agent |-> ag, response |-> "info"]
    ELSE IF action = "set_result_info"
    THEN IF \/ ~ payload.max_action_id.convertible
            \/ payload.max_action_id.value < 0
            \/ Len(payload.list) = 0
            \/ \E n \in DOMAIN payload.list : payload.list[n] \in {"no_pair", "no_date"}
         THEN [agent |-> ag, response |-> "error"]
         ELSE [agent |-> [ag EXCEPT !.result_max_action_id = payload.max_action_id.value,
                                    !.result_upload_ids = NoneList,
                                    !.result_timespans = parse_timespans(payload.list)],
               response |-> "accepted"]
    ELSE IF action = "set_result_info_direct"
    THEN IF \/ ~ payload.max_action_id.convertible
            \/ payload.max_action_id.value < 0
            \/ Len(payload.list) = 0
            \/ object_ids_error(payload.list) = "TypeError"
         THEN [agent |-> ag, response |-> "error"]
         ELSE IF object_ids_error(payload.list) # "None"
         THEN [agent |-> ag, response |-> object_ids_error(payload.list)]
         ELSE [agent |-> [ag EXCEPT !.result_max_action_id = payload.max_action_id.value,
                                    !.result_upload_ids = payload.list,
                                    !.result_timespans = NoneList],
               response |-> "accepted"]
    ELSE [agent |-> ag, response |-> "error"]

\* Supervisor._analyzer_request: the agents afterwards and the response
analyzer_request(ags, identifier, token, action, payload) ==
    IF identifier \notin DOMAIN ags \/ ags[identifier] = NoAgent
    THEN [agents |-> ags, response |-> "error"]
    ELSE IF ags[identifier].token # token THEN [agents |-> ags, response |-> "error"]
    ELSE [agents |-> [ags EXCEPT ![identifier] = handle_request(ags[identifier], action, payload).agent],
          response |-> handle_request(ags[identifier], action, payload).response]

InitAgents == InitDirect

\* Supervisor.create_online_agent, called once by main, and the agent creation of
\* check_for_work
CreateAgent(token) ==
    /\ Len(agents) < MaxAgents
    /\ agents' = Append(agents, create_agent(IF agents = <<>> THEN "online" ELSE "module", token))
    /\ temporary_db' = temporary_db \cup {Len(agents) + 1}
    /\ UNCHANGED <<reply, crashed, conn>>
    /\ UNCHANGED <<stateVars, sensorVars, logVars, output_coll, temporary_coll, last_commit, timelines>>
    /\ UNCHANGED <<observation, execution_result, committing>>

\* Supervisor.shutdown_online_agent and _script_agent_done: the agent is deleted;
\* the teardown of the online agent drops its collection, the one of a module
\* agent leaves it to the Validator
DeleteAgent(identifier) ==
    /\ identifier \in DOMAIN agents
    /\ agents[identifier] # NoAgent
    /\ agents' = [agents EXCEPT ![identifier] = NoAgent]
    /\ temporary_db' = IF agents[identifier].kind = "online" THEN temporary_db \ {identifier}
                       ELSE temporary_db
    /\ UNCHANGED <<reply, crashed, conn>>
    /\ UNCHANGED <<stateVars, sensorVars, logVars, output_coll, temporary_coll, last_commit, timelines>>
    /\ UNCHANGED <<observation, execution_result, committing>>

\* SupervisorServer.received with a request that has its four fields
AnalyzerRequest(identifier, token, action, payload) ==
    /\ agents' = analyzer_request(agents, identifier, token, action, payload).agents
    /\ reply' = [request |-> [identifier |-> identifier, token |-> token, action |-> action,
                              payload |-> payload],
                 response |-> analyzer_request(agents, identifier, token, action, payload).response]
    /\ UNCHANGED <<crashed, conn>>
    /\ UNCHANGED <<stateVars, sensorVars, logVars, output_coll, temporary_coll, last_commit, timelines, otherVars>>

NextAgents ==
    \/ \E token \in Tokens : CreateAgent(token)
    \/ \E identifier \in 1..MaxAgents : DeleteAgent(identifier)
    \/ \E r \in Requests(1..(MaxAgents + 1)) :
          AnalyzerRequest(r.identifier, r.token, r.action, r.payload)

SpecAgents == InitAgents /\ [][NextAgents]_vars

-----------------------------------------------------------------------------
(* Claims settled under SpecAgents *)

\* the request is one the agents reject: unknown identifier, wrong token, or a
\* result report with max_action_id < 0 or not a number, an empty list, or a
\* malformed timespan or id
Rejected(ags, request) ==
    \/ request.identifier \notin DOMAIN ags
    \/ ags[request.identifier] = NoAgent
    \/ ags[request.identifier].token # request.token
    \/ /\ request.action \in {"set_result_info", "set_result_info_direct"}
       /\ \/ ~ request.payload.max_action_id.convertible
          \/ request.payload.max_action_id.value < 0
          \/ request.payload.list = <<>>
          \/ \E n \in DOMAIN request.payload.list :
                request.payload.list[n] \in {"no_pair", "no_date", "no_hex", "no_str"}

\* the agent's slots are as the result report leaves them
Reported(ag, before, request) ==
    ag = [before EXCEPT
            !.result_max_action_id = request.payload.max_action_id.value,
            !.result_timespans = IF request.action = "set_result_info"
                                 THEN parse_timespans(request.payload.list) ELSE NoneList,
            !.result_upload_ids = IF request.action = "set_result_info"
                                  THEN NoneList ELSE request.payload.list]

\* C17 (agent result slots): at most one of an agent's slots timespans / upload_ids
\* is non-null; a result report that is not rejected puts its values into the slots
\* of the agent with its identifier and token and changes no other agent; a rejected
\* request is answered with an error and changes no agent; no other request changes
\* an agent.
C17_AgentSlots ==
    [][ /\ \A i \in DOMAIN agents' :
              agents'[i].result_timespans = NoneList \/ agents'[i].result_upload_ids = NoneList
        /\ reply' # reply =>
              IF Rejected(agents, reply'.request)
              THEN reply'.response = "error" /\ agents' = agents
              ELSE IF reply'.request.action \in {"set_result_info", "set_result_info_direct"}
              THEN /\ reply'.response = "accepted"
                   /\ \A i \in DOMAIN agents :
                         IF i = reply'.request.identifier
                         THEN Reported(agents'[i], agents[i], reply'.request)
                         ELSE agents'[i] = agents[i]
              ELSE agents' = agents
      ]_vars
-----------------------------------------------------------------------------
(* SpecProtocol: a client writes request lines to a supervisor connection,    *)
(* the transport delivers the bytes in chunks of any size, and                *)
(* JsonProtocol.data_received handles each chunk.                             *)

MaxLines == 3

\* what a line holds: a request with its four fields, a JSON object that lacks one
\* of them, a text that is no JSON
LineKinds == {"request", "missing_field", "no_json"}

Newline == [line |-> 0, kind |-> "newline"]

\* JsonProtocol.send: json.dumps(obj) + "\n", here as two bytes of text and the newline
send(n, kind) == <<[line |-> n, kind |-> kind], [line |-> n, kind |-> kind], Newline>>

\* str.split('\n', 1): the position of the first newline of the text
first_newline(text) == CHOOSE k \in DOMAIN text : text[k] = Newline /\ \A j \in 1..(k - 1) : text[j] # Newline

\* json.loads and SupervisorServer.received for one message: the responses written
received(message_str) ==
    IF message_str = <<>> \/ message_str[1].kind = "no_json" THEN <<>>
    ELSE IF message_str[1].kind = "missing_field"
    THEN <<[line |-> message_str[1].line, response |-> "error"]>>
    ELSE <<[line |-> message_str[1].line, response |-> "answer"]>>

\* JsonProtocol.data_received: buffer and written responses after the chunk (the
\* buffer stays far below MAX_BUFSIZE)
data_received(buffer, written, decoded) ==
    LET joined == buffer \o decoded
    IN IF \E k \in DOMAIN decoded : decoded[k] = Newline
       THEN [buffer |-> SubSeq(joined, first_newline(joined) + 1, Len(joined)),
             written |-> written \o received(SubSeq(joined, 1, first_newline(joined) - 1))]
       ELSE [buffer |-> joined, written |-> written]

InitProtocol == InitDirect

\* the client writes a request line
SendLine(kind) ==
    /\ Len(conn.sent) < MaxLines
    /\ conn' = [conn EXCEPT !.sent = Append(@, kind),
                            !.wire = @ \o send(Len(conn.sent) + 1, kind)]
    /\ UNCHANGED <<agents, reply, crashed>>
    /\ UNCHANGED <<stateVars, sensorVars, logVars, output_coll, temporary_coll, last_commit, timelines, otherVars>>

\* the transport hands the next n bytes to data_received
DataReceived(n) ==
    /\ n \in 1..Len(conn.wire)
    /\ conn' = [conn EXCEPT
           !.wire = SubSeq(@, n + 1, Len(@)),
           !.buffer = data_received(conn.buffer, conn.written, SubSeq(conn.wire, 1, n)).buffer,
           !.written = data_received(conn.buffer, conn.written, SubSeq(conn.wire, 1, n)).written]
    /\ UNCHANGED <<agents, reply, crashed>>
    /\ UNCHANGED <<stateVars, sensorVars, logVars, output_coll, temporary_coll, last_commit, timelines, otherVars>>

NextProtocol ==
    \/ \E kind \in LineKinds : SendLine(kind)
    \/ \E n \in 1..(3 * MaxLines) : DataReceived(n)

SpecProtocol == InitProtocol /\ [][NextProtocol]_vars

-----------------------------------------------------------------------------
(* Claims settled under SpecProtocol *)

\* the number of lines whose newline has been delivered
LinesReceived == Len(conn.sent) - Cardinality({k \in DOMAIN conn.wire : conn.wire[k] = Newline})

\* C18 (one response per request line): whatever the chunks were, the responses
\* written are one for each request line received so far, in the order of the lines,
\* and a line that cannot be served has an error as its response.
C18_OneResponsePerLine ==
    /\ Len(conn.written) = LinesReceived
    /\ \A n \in DOMAIN conn.written :
          /\ conn.written[n].line = n
          /\ conn.written[n].response = IF conn.sent[n] = "request" THEN "answer" ELSE "error"

-----------------------------------------------------------------------------
(* SpecTimeline: two Timeline objects A and B are built by calls of           *)
(* add_interval and remove_interval with any interval a <= b.                 *)

\* Timeline.__add__: the intervals of tl are added one after the other
RECURSIVE timeline_add(_, _)
timeline_add(intervals, tl) ==
    IF tl = <<>> THEN intervals
    ELSE timeline_add(add_interval(intervals, Head(tl)), Tail(tl))

\* Timeline.__sub__: the intervals of tl are removed one after the other
RECURSIVE timeline_sub(_, _)
timeline_sub(intervals, tl) ==
    IF tl = <<>> THEN intervals
    ELSE timeline_sub(remove_interval(intervals, Head(tl)), Tail(tl))

InitTimeline == InitDirect

\* tl.add_interval(a, b) on one of the two timelines
AddInterval(name, interval) ==
    /\ timelines' = [timelines EXCEPT ![name] = add_interval(@, interval)]
    /\ UNCHANGED <<stateVars, sensorVars, logVars>>
    /\ UNCHANGED <<output_coll, temporary_coll, last_commit, pipeVars, otherVars>>

\* tl.remove_interval(a, b) on one of the two timelines
RemoveInterval(name, interval) ==
    /\ timelines' = [timelines EXCEPT ![name] = remove_interval(@, interval)]
    /\ UNCHANGED <<stateVars, sensorVars, logVars>>
    /\ UNCHANGED <<output_coll, temporary_coll, last_commit, pipeVars, otherVars>>

NextTimeline ==
    \/ \E name \in {"A", "B"}, interval \in Intervals : AddInterval(name, interval)
    \/ \E name \in {"A", "B"}, interval \in Intervals : RemoveInterval(name, interval)

SpecTimeline == InitTimeline /\ [][NextTimeline]_vars


-----------------------------------------------------------------------------
(* Claims settled under SpecTimeline *)

\* the moments of the day: the hours and the stretches between two hours
Moments == Segments \cup {<<p, p>> : p \in TimePoints}

\* every moment of the first timeline is a moment of the second
Contained(intervals, tl) == \A m \in Moments : Covers(intervals, m) => Covers(tl, m)

\* C19 (timeline idempotence): for each of the timelines and any interval i, adding
\* i a second time leaves the set of intervals that adding it once has produced, and
\* removing an interval that shares no moment with an interval of the timeline
\* leaves the timeline as it is.
C19_TimelineIdempotence ==
    \A name \in {"A", "B"}, i \in Intervals :
        /\ Range(add_interval(add_interval(timelines[name], i), i))
              = Range(add_interval(timelines[name], i))
        /\ ~ Intersects(timelines[name], i) => remove_interval(timelines[name], i) = timelines[name]

\* a timeline of two intervals: some interval is merged when it is added, and some
\* interval shares no moment with it
C19_Witness ==
    /\ Len(timelines.A) = 2
    /\ \E i \in Intervals : Len(add_interval(timelines.A, i)) < Len(timelines.A)
    /\ \E i \in Intervals : ~ Intersects(timelines.A, i)

\* C20 (timeline algebra): (A + B) - B holds no moment that A does not hold, and
\* A - A is empty.
C20_TimelineAlgebra ==
    /\ Contained(timeline_sub(timeline_add(timelines.A, timelines.B), timelines.B), timelines.A)
    /\ timeline_sub(timelines.A, timelines.A) = <<>>

\* A has two intervals, B has an interval that overlaps A and reaches beyond it
C20_Witness ==
    /\ Len(timelines.A) = 2
    /\ timelines.B # <<>>
    /\ Intersects(timelines.A, timelines.B[1])
    /\ ~ Covers(timelines.A, timelines.B[1])
    /\ timeline_sub(timeline_add(timelines.A, timelines.B), timelines.B) # <<>>


\* the intervals are well-formed and no two of them share a moment
Disjoint(intervals) ==
    /\ \A k \in DOMAIN intervals : intervals[k][1] <= intervals[k][2]
    /\ \A k \in DOMAIN intervals, n \in DOMAIN intervals :
          k # n => (intervals[k][2] < intervals[n][1] \/ intervals[n][2] < intervals[k][1])

\* C21 (timeline disjointness): the intervals of a timeline built by add_interval and
\* remove_interval, and those of A + B and A - B, have start <= end and are pairwise
\* apart: no two of them overlap or share an endpoint.
C21_TimelineDisjoint ==
    /\ Disjoint(timelines.A)
    /\ Disjoint(timelines.B)
    /\ Disjoint(timeline_add(timelines.A, timelines.B))
    /\ Disjoint(timeline_sub(timelines.A, timelines.B))


\* the two lists of intervals hold the same moments
SameMoments(intervals, tl) == Contained(intervals, tl) /\ Contained(tl, intervals)

\* C22 (insertion order): the intervals of A and B added to an empty timeline give
\* the same set of intervals in the order A, B as in the order B, A, and that set is
\* the coalesced union: pairwise apart and holding exactly the moments of the
\* intervals added; and when the intervals of A are pairwise apart, adding to A any
\* interval i and then an interval j of B gives the same set of intervals as adding
\* j and then i.
C22_InsertionOrder ==
    /\ LET forward == timeline_add(<<>>, timelines.A \o timelines.B)
           backward == timeline_add(<<>>, timelines.B \o timelines.A)
       IN  /\ Range(forward) = Range(backward)
           /\ Disjoint(forward)
           /\ SameMoments(forward, timelines.A \o timelines.B)
    /\ \A i \in Intervals, j \in Range(timelines.B) :
          Disjoint(timelines.A) =>
              LET forward == add_interval(add_interval(timelines.A, i), j)
                  backward == add_interval(add_interval(timelines.A, j), i)
              IN  /\ Range(forward) = Range(backward)
                  /\ Disjoint(forward)
                  /\ SameMoments(forward, timelines.A \o <<i, j>>)

\* the intervals of A and B touch or overlap, so that they coalesce, and the two
\* orders of insertion give the same intervals in different list orders
C22_Witness ==
    /\ Len(timelines.A) = 2
    /\ timelines.B # <<>>
    /\ Len(timeline_add(<<>>, timelines.A \o timelines.B)) = 2
    /\ Len(timelines.A \o timelines.B) > 2
    /\ timeline_add(<<>>, timelines.A \o timelines.B) # timeline_add(<<>>, timelines.B \o timelines.A)


\* what the removal of candidate leaves of one stored interval: nothing when the
\* candidate covers it, the interval when the two share no moment, else the part
\* left of the candidate and the part right of it
Remnants(stored, candidate) ==
    IF candidate[1] <= stored[1] /\ stored[2] <= candidate[2] THEN <<>>
    ELSE IF stored[2] < candidate[1] \/ candidate[2] < stored[1] THEN <<stored>>
    ELSE (IF stored[1] < candidate[1] THEN <<<<stored[1], candidate[1]>>>> ELSE <<>>)
         \o (IF candidate[2] < stored[2] THEN <<<<candidate[2], stored[2]>>>> ELSE <<>>)

\* the remnants of the stored intervals, in the order of the list
RECURSIVE AllRemnants(_, _)
AllRemnants(intervals, candidate) ==
    IF intervals = <<>> THEN <<>>
    ELSE Remnants(Head(intervals), candidate) \o AllRemnants(Tail(intervals), candidate)

\* C23 (interval removal): removing an interval from a timeline replaces each stored
\* interval by its remnants (nothing when it is covered, its left part up to the start
\* of the removed interval and its right part from the end of it, itself when the two
\* do not intersect), and the result holds no moment that the timeline did not hold.
C23_Removal ==
    \A name \in {"A", "B"}, i \in Intervals :
        /\ remove_interval(timelines[name], i) = AllRemnants(timelines[name], i)
        /\ Contained(remove_interval(timelines[name], i), timelines[name])

\* the interval of B lies inside the interval of A, and removing it splits A in two
C23_Witness ==
    /\ timelines.A = <<<<4, 10>>>>
    /\ timelines.B = <<<<6, 8>>>>
    /\ remove_interval(timelines.A, timelines.B[1]) = <<<<4, 6>>, <<8, 10>>>>
    /\ remove_interval(timelines.A, <<8, 10>>) = <<<<4, 8>>>>
    /\ remove_interval(timelines.A, <<4, 8>>) = <<<<8, 10>>>>


-----------------------------------------------------------------------------
(* sensitivity.py: margin sensitivity.  The islands are those of              *)
(* timeline.margin as tests/test_margin.py expects them.                      *)

\* the margins: none, one stretch between two hours, two stretches
Offsets == {0, 2, 4}

\* ActionSetBase.input_timespans
input_timespans(input_actions, output_actions) ==
    <<get_max_action_id(input_actions, output_actions),
      apply_actions(<<>>, [n \in DOMAIN input_actions |-> <<TRUE, input_actions[n]>>])>>

\* the island that grows from an interval: it takes in every interval that starts no
\* more than offset after its end and ends no more than offset before its start
RECURSIVE grow(_, _, _)
grow(offset, island, intervals) ==
    LET near == {k \in DOMAIN intervals :
                    /\ intervals[k][1] - island[2] <= offset
                    /\ island[1] - intervals[k][2] <= offset
                    /\ ~ (island[1] <= intervals[k][1] /\ intervals[k][2] <= island[2])}
    IN  IF near = {} THEN island
        ELSE LET k == CHOOSE n \in near : TRUE
             IN grow(offset,
                     <<IF intervals[k][1] < island[1] THEN intervals[k][1] ELSE island[1],
                       IF intervals[k][2] > island[2] THEN intervals[k][2] ELSE island[2]>>,
                     intervals)

\* timeline.margin: the intervals that lie no more than offset apart are coalesced
\* into islands; the island of the first interval comes last
RECURSIVE timeline_margin(_, _)
timeline_margin(offset, intervals) ==
    IF intervals = <<>> THEN <<>>
    ELSE LET island == grow(offset, Head(intervals), intervals)
             outside(interval) == ~ (island[1] <= interval[1] /\ interval[2] <= island[2])
         IN timeline_margin(offset, SelectSeq(intervals, outside)) \o <<island>>

\* a get_islands that keeps only the islands that start during an input timespan
get_islands_started(islands, timespans) ==
    {islands[k] : k \in {i \in DOMAIN islands :
        \E n \in DOMAIN timespans :
            timespans[n][1] <= islands[i][1] /\ timespans[n][2] >= islands[i][1]}}

\* get_islands: the set of the islands that overlap one of the timespans
get_islands(islands, timespans) ==
    {islands[k] : k \in {i \in DOMAIN islands :
        \E n \in DOMAIN timespans :
            \/ timespans[n][1] <= islands[i][1] /\ timespans[n][2] >= islands[i][1]
            \/ timespans[n][1] >= islands[i][1] /\ timespans[n][1] <= islands[i][2]}}

\* list.sort() of a list of tuples
RECURSIVE sort_ascending(_)
sort_ascending(tuples) ==
    IF tuples = {} THEN <<>>
    ELSE LET least == CHOOSE t \in tuples : \A u \in tuples :
                          t[1] < u[1] \/ (t[1] = u[1] /\ t[2] <= u[2])
         IN <<least>> \o sort_ascending(tuples \ {least})

\* margin(offset, action_set)
margin(offset, input_actions, output_actions) ==
    <<input_timespans(input_actions, output_actions)[1],
      sort_ascending(get_islands(
          timeline_margin(offset, input_timespans(input_actions, output_actions)[2]),
          basic(input_actions, output_actions)[2]))>>

-----------------------------------------------------------------------------
(* Claims on the margin sensitivity, settled under SpecTimeline: the action   *)
(* set is an ActionSetTest whose input action has the timespans of A and      *)
(* whose output action has the timespans of B.                                *)

TestInputActions ==
    <<action_doc(0, "upload", <<"A">>, timelines.A, -1, "None", {"format0"}, "None")>>

TestOutputActions ==
    <<action_doc(1, "analyze", <<"A">>, timelines.B, 0, "X", {}, "commit0")>>

\* the two intervals lie no more than offset apart
Linked(offset, i, j) == i[1] - j[2] <= offset /\ j[1] - i[2] <= offset

\* the intervals that a chain of linked intervals reaches from those of the set
RECURSIVE Chain(_, _, _)
Chain(offset, reached, intervals) ==
    LET more == {j \in Range(intervals) : \E i \in reached : Linked(offset, i, j)}
    IN  IF more \subseteq reached THEN reached ELSE Chain(offset, reached \cup more, intervals)

Within(interval, island) == island[1] <= interval[1] /\ interval[2] <= island[2]

\* C24 (margin): timeline.margin(d, ints) gives islands such that two intervals lie in
\* the same island iff a chain of gaps <= d links them, each island reaches from the
\* earliest start to the latest end of its intervals, and no island comes twice; and
\* margin(d, action_set) returns, in ascending order, exactly the islands of the merged
\* input timeline that overlap an interval that basic() leaves.
C24_Margin ==
    \A offset \in Offsets :
        /\ LET intervals == timelines.A \o timelines.B
               islands == timeline_margin(offset, intervals)
           IN  /\ \A i \in Range(intervals), j \in Range(intervals) :
                     (\E k \in DOMAIN islands : Within(i, islands[k]) /\ Within(j, islands[k]))
                        <=> j \in Chain(offset, {i}, intervals)
               /\ \A k \in DOMAIN islands :
                     /\ \E i \in Range(intervals) : i[1] = islands[k][1] /\ Within(i, islands[k])
                     /\ \E i \in Range(intervals) : i[2] = islands[k][2] /\ Within(i, islands[k])
               /\ \A k \in DOMAIN islands, n \in DOMAIN islands : k # n => islands[k] # islands[n]
        /\ LET merged == input_timespans(TestInputActions, TestOutputActions)[2]
               residual == basic(TestInputActions, TestOutputActions)[2]
               result == margin(offset, TestInputActions, TestOutputActions)[2]
           IN  /\ Range(result) = {island \in Range(timeline_margin(offset, merged)) :
                                      Intersects(residual, island)}
               /\ \A p \in DOMAIN result, q \in DOMAIN result : p < q => result[p][1] < result[q][1]

\* the inputs are the hours 4, 6 and 10 and the hour 10 is done: with a margin of 2 the
\* island from 4 to 6 is returned and the island of 10 is not, with no margin the hours
\* 4 and 6 are returned, and a margin of 4 makes one island of all the intervals
C24_Witness ==
    /\ Range(timelines.A) = {<<4, 4>>, <<6, 6>>, <<10, 10>>}
    /\ timelines.B = <<<<10, 10>>>>
    /\ margin(2, TestInputActions, TestOutputActions)[2] = <<<<4, 6>>>>
    /\ margin(0, TestInputActions, TestOutputActions)[2] = <<<<4, 4>>, <<6, 6>>>>
    /\ timeline_margin(4, timelines.A \o timelines.B) = <<<<4, 10>>>>
    /\ Len(timeline_margin(2, timelines.A \o timelines.B)) = 2


-----------------------------------------------------------------------------
(* commit.py, collutils.py: the content hash of an observation.  A value is   *)
(* a string (the list of its characters), a list of values or a dict (the     *)
(* list of its <<key, value>> pairs in the order of the dict).                *)

Str(chars) == [tag |-> "str", v |-> chars]

List(elems) == [tag |-> "list", v |-> elems]

Dict(entries) == [tag |-> "dict", v |-> entries]

VALIDATION_COMPARE_FIELDS == {"conditions", "time", "path", "value", "sources", "analyzer_id"}

\* the fields of a document that the program adds
OtherFields == <<"_id", "hash", "output_id", "action_ids">>

\* the keys of the documents in the order of Python's str comparison
KeyOrder ==
    <<"_id", "action_ids", "analyzer_id", "conditions", "from", "hash", "k0", "k1",
      "output_id", "path", "sources", "time", "to", "upl", "value", "x", "y">>

keys(entries) == {entries[n][1] : n \in DOMAIN entries}

\* obj[key]
lookup(entries, key) == entries[CHOOSE n \in DOMAIN entries : entries[n][1] = key][2]

\* obj.keys(): the keys in the order of the dict
keys_unsorted(entries) == [n \in DOMAIN entries |-> entries[n][1]]

\* sorted(obj.keys())
sorted_keys(entries) == SelectSeq(KeyOrder, LAMBDA key : key \in keys(entries))

\* dict_to_sorted_list: a dict becomes the list of its [key, value] lists by ascending key
RECURSIVE dict_to_sorted_list(_)
dict_to_sorted_list(obj) ==
    IF obj.tag = "dict"
    THEN List([n \in DOMAIN sorted_keys(obj.v) |->
                  List(<<Str(<<sorted_keys(obj.v)[n]>>),
                         dict_to_sorted_list(lookup(obj.v, sorted_keys(obj.v)[n]))>>)])
    ELSE IF obj.tag = "list"
    THEN List([n \in DOMAIN obj.v |-> dict_to_sorted_list(obj.v[n])])
    ELSE obj

\* rflatten: the elements of the nested lists, every list between '[' and ']'
RECURSIVE rflatten(_)
rflatten(elems) ==
    IF elems = <<>> THEN <<>>
    ELSE (IF Head(elems).tag = "list"
          THEN <<Str(<<"[">>)>> \o rflatten(Head(elems).v) \o <<Str(<<"]">>)>>
          ELSE <<Head(elems)>>)
         \o rflatten(Tail(elems))

\* hs.update(str(elem).encode('utf-8')) for every element: the bytes that are hashed
RECURSIVE update(_)
update(elems) == IF elems = <<>> THEN <<>> ELSE Head(elems).v \o update(Tail(elems))

\* create_hash: the digest stands for the bytes hashed, two digests are equal iff
\* the bytes are
create_hash(entries) ==
    LET cmp == SelectSeq(entries, LAMBDA entry : entry[1] \in VALIDATION_COMPARE_FIELDS)
    IN update(rflatten(dict_to_sorted_list(Dict(cmp)).v))

-----------------------------------------------------------------------------
(* SpecHash: a module inserts an observation into its scratch collection, the *)
(* keys of the document and of its nested dicts come in other orders, and the *)
(* program sets the fields it adds.                                           *)

InitHash == InitDirect

\* the values a module gives to value.k0
ValueInputs == {<<"1">>, <<"1", "2">>}

\* the observation a module writes
new_observation(v) ==
    <<<<"analyzer_id", Str(<<"X">>)>>,
      <<"conditions", List(<<Str(<<"c", "0">>), Str(<<"c", "1">>)>>)>>,
      <<"path", List(<<Str(<<"p">>)>>)>>,
      <<"sources", Dict(<<<<"upl", List(<<Str(<<"A">>)>>)>>>>)>>,
      <<"time", Dict(<<<<"from", Str(<<"4">>)>>, <<"to", Str(<<"6">>)>>>>)>>,
      <<"value", Dict(<<<<"k0", Str(v)>>,
                        <<"k1", List(<<Dict(<<<<"x", Str(<<"1">>)>>, <<"y", Str(<<"2">>)>>>>)>>)>>>>)>>>>

\* the entries with the entries k and k + 1 in the opposite order
swap(entries, k) ==
    [n \in DOMAIN entries |->
        IF n = k THEN entries[k + 1] ELSE IF n = k + 1 THEN entries[k] ELSE entries[n]]

\* obj[key] = value
with_value(entries, key, value) ==
    IF key \in keys(entries)
    THEN [n \in DOMAIN entries |-> IF entries[n][1] = key THEN <<key, value>> ELSE entries[n]]
    ELSE Append(entries, <<key, value>>)

hash_step ==
    UNCHANGED <<stateVars, sensorVars, logVars, output_coll, temporary_coll, last_commit, pipeVars, timelines, execution_result, committing, temporary_db>>

\* the module inserts an observation
InsertObservation(v) ==
    /\ observation = <<>>
    /\ observation' = new_observation(v)
    /\ hash_step

\* the identity fields of the document: the module has written them first
identity_fields(entries) == SelectSeq(entries, LAMBDA entry : entry[1] \in VALIDATION_COMPARE_FIELDS)

other_fields(entries) == SelectSeq(entries, LAMBDA entry : entry[1] \notin VALIDATION_COMPARE_FIELDS)

\* the same document with its first field behind its other identity fields
MoveField ==
    /\ observation # <<>>
    /\ observation' = Tail(identity_fields(observation)) \o <<Head(observation)>>
                          \o other_fields(observation)
    /\ hash_step

\* the same document with its identity fields in the opposite order
ReverseFields ==
    /\ observation # <<>>
    /\ observation' = [n \in 1 .. 6 |-> observation[7 - n]] \o other_fields(observation)
    /\ hash_step

\* the same document with the keys of one of its nested dicts in the opposite order
SwapNested(key) ==
    /\ observation # <<>>
    /\ key \in {"time", "value"}
    /\ observation' = with_value(observation, key, Dict(swap(lookup(observation, key).v, 1)))
    /\ hash_step

\* the same document with the keys of the dict in the list value.k1 in the opposite order
SwapInner ==
    /\ observation # <<>>
    /\ LET value == lookup(observation, "value").v
           inner == lookup(value, "k1").v[1].v
       IN observation' = with_value(observation, "value",
                             Dict(with_value(value, "k1", List(<<Dict(swap(inner, 1))>>))))
    /\ hash_step

\* the program sets the next of the fields it adds: _id at the insertion, hash in
\* the scratch collection, output_id for a counterpart, action_ids in the observations
SetOther(n) ==
    /\ observation # <<>>
    /\ n \in DOMAIN OtherFields
    /\ OtherFields[n] \notin keys(observation)
    /\ \A before \in 1 .. (n - 1) : OtherFields[before] \in keys(observation)
    /\ observation' = with_value(observation, OtherFields[n],
                          IF OtherFields[n] = "hash" THEN Str(create_hash(observation))
                          ELSE IF OtherFields[n] = "action_ids" THEN List(<<Str(<<"7">>)>>)
                          ELSE Str(<<"0">>))
    /\ hash_step

\* the module has given value.k0 another value
SetValue(v) ==
    /\ observation # <<>>
    /\ lookup(lookup(observation, "value").v, "k0") # Str(v)
    /\ observation' = with_value(observation, "value",
                          Dict(with_value(lookup(observation, "value").v, "k0", Str(v))))
    /\ hash_step

NextHash ==
    \/ \E v \in ValueInputs : InsertObservation(v)
    \/ MoveField
    \/ ReverseFields
    \/ \E key \in {"time", "value"} : SwapNested(key)
    \/ SwapInner
    \/ \E n \in DOMAIN OtherFields : SetOther(n)
    \/ \E v \in ValueInputs : SetValue(v)

SpecHash == InitHash /\ [][NextHash]_vars

-----------------------------------------------------------------------------
(* Claims settled under SpecHash *)

\* the content of a value whatever the order of the keys of its dicts
RECURSIVE Content(_)
Content(obj) ==
    IF obj.tag = "dict" THEN [key \in keys(obj.v) |-> Content(lookup(obj.v, key))]
    ELSE IF obj.tag = "list" THEN [n \in DOMAIN obj.v |-> Content(obj.v[n])]
    ELSE obj.v

\* the identity fields of a document with their content
Identity(entries) ==
    [key \in keys(entries) \cap VALIDATION_COMPARE_FIELDS |-> Content(lookup(entries, key))]

\* C25 (content hash): two documents whose identity fields analyzer_id, conditions,
\* path, value, sources and time have the same content have the same hash, whatever
\* the order of the keys of the document and of the dicts nested in it and whatever
\* their fields action_ids, hash, _id and output_id are.
C25_ContentHash ==
    [][ (observation # <<>> /\ Identity(observation') = Identity(observation))
            => create_hash(observation') = create_hash(observation) ]_vars

\* a document with all the fields the program adds, whose keys are in descending
\* order at every level
C25_Witness ==
    /\ Len(observation) = 10
    /\ observation[1][1] = "value"
    /\ observation[6][1] = "analyzer_id"
    /\ lookup(observation, "time").v[1][1] = "to"
    /\ lookup(observation, "value").v[1][1] = "k1"
    /\ lookup(lookup(observation, "value").v, "k1").v[1].v[1][1] = "y"
    /\ lookup(observation, "hash").v = create_hash(observation)


-----------------------------------------------------------------------------
(* Claims on the Sensor's type exclusion, settled under SpecSensor *)

\* the step is a run of Sensor.check
SensorStep ==
    /\ last' = last \/ last'.domain = "sensor"
    /\ \E cursor \in Cursors(sensing_analyzers(analyzers_coll)), unprocessed \in SUBSET SensorAnalyzers :
          SensorCheck(cursor, unprocessed)

\* neither analyzer reads a type that the other one writes
Apart(a, b) ==
    /\ a.input_types \cap b.output_types = {}
    /\ a.output_types \cap b.input_types = {}

\* no two running analyzers read and write the same type
Exclusive(coll) ==
    \A a \in running_analyzers(coll), b \in running_analyzers(coll) :
        a # b => Apart(coll[a], coll[b])

\* C26 (type exclusion): a run of Sensor.check orders the execution of an analyzer,
\* or moves it to planned, only if no other analyzer that is running then, one planned
\* in the same run included, writes a type it reads or reads a type it writes; a run
\* that starts with no two running analyzers in such a conflict ends with none.
C26_TypeExclusion ==
    [][ SensorStep =>
          /\ \A a \in sensing_analyzers(analyzers_coll) :
                (ordered' = a \/ analyzers_coll'[a].state = "planned") =>
                    \A b \in running_analyzers(analyzers_coll') \ {a} :
                        Apart(analyzers_coll[a], analyzers_coll[b])
          /\ Exclusive(analyzers_coll) => Exclusive(analyzers_coll')
      ]_vars

\* the Sensor has ordered the execution of P while Q, which reads a type and writes
\* another one, is running: P neither reads what Q writes nor writes what Q reads
C26_Witness ==
    /\ ordered = "P"
    /\ last.domain = "sensor"
    /\ analyzers_coll["P"].state = "sensing"
    /\ analyzers_coll["Q"].state \in running_states
    /\ analyzers_coll["Q"].input_types # {}
    /\ analyzers_coll["P"].output_types # analyzers_coll["Q"].input_types
    /\ ~ sensor_skips(analyzers_coll, analyzers_coll["P"])


\* C27 (frame of a Sensor tick): a run of Sensor.check orders the execution of an
\* analyzer, or moves it to planned, only if the analyzer is in sensing, no wish is
\* honoured for it, no running analyzer reads a type it writes or writes a type it
\* reads, and its action set has unprocessed data; the run leaves every analyzer that
\* is not in sensing as it is; and when no action set has unprocessed data, as with an
\* empty action log, the run orders nothing and changes nothing.
C27_SensorFrame ==
    [][ (last' = last \/ last'.domain = "sensor") =>
          \A cursor \in Cursors(sensing_analyzers(analyzers_coll)), unprocessed \in SUBSET SensorAnalyzers :
              SensorCheck(cursor, unprocessed) =>
                  /\ \A a \in DOMAIN analyzers_coll :
                        (ordered' = a \/ (analyzers_coll'[a].state = "planned"
                                            /\ analyzers_coll[a].state # "planned")) =>
                            /\ analyzers_coll[a].state = "sensing"
                            /\ ~ check_wish("sensor", analyzers_coll[a], "disable")
                            /\ ~ check_wish("sensor", analyzers_coll[a], "cancel")
                            /\ \A b \in running_analyzers(analyzers_coll) :
                                   Apart(analyzers_coll[a], analyzers_coll[b])
                            /\ a \in unprocessed
                  /\ \A a \in DOMAIN analyzers_coll :
                        analyzers_coll[a].state # "sensing" => analyzers_coll'[a] = analyzers_coll[a]
                  /\ unprocessed = {} =>
                        /\ analyzers_coll' = analyzers_coll
                        /\ ordered' = "None"
                        /\ last' = last
      ]_vars

\* the Sensor has ordered the execution of Q, which is in sensing, while P is
\* executing and has been left as it was
C27_Witness ==
    /\ ordered = "Q"
    /\ last.domain = "sensor"
    /\ last.outcome = "TransitionNotSupportedError"
    /\ analyzers_coll["Q"].state = "sensing"
    /\ analyzers_coll["P"].state = "executing"


-----------------------------------------------------------------------------
(* Claims on the output actions, settled under SpecDirect *)

\* the entries of the log that the analyzer has written
EntriesOf(log, analyzer_id) == {log[i] : i \in {j \in DOMAIN log : log[j].analyzer_id = analyzer_id}}

\* C28 (output actions): the output actions of an analyzer at a commit are entries of
\* that analyzer only, newest first, and an entry of the analyzer is among them iff it
\* and every newer entry of the analyzer were written by the code of that commit; when
\* the newest entry of the analyzer was written by other code there is no output
\* action and direct() lists every upload that an input action mentions.
C28_OutputActions ==
    \A analyzer_id \in {"X", "Y"}, commit \in Commits :
        LET own == EntriesOf(action_log, analyzer_id)
            output_actions == load_output_actions(action_log, analyzer_id, commit)
        IN  /\ Range(output_actions) =
                  {e \in own : \A newer \in own : newer._id >= e._id => newer.git_commit = commit}
            /\ \A p \in DOMAIN output_actions, q \in DOMAIN output_actions :
                  p < q => output_actions[p]._id > output_actions[q]._id
            /\ (\E e \in own : e.git_commit # commit /\ \A other \in own : other._id <= e._id) =>
                  /\ output_actions = <<>>
                  /\ Range(direct(load_input_actions(action_log), output_actions)[2])
                        = {u \in Uploads : Mentions(action_log, u) # {}}

\* X has an entry of the code checked out behind an entry of other code and a newer
\* entry of the code checked out: only the newer entry is an output action
C28_Witness ==
    /\ \E i, j, k \in DOMAIN action_log :
          /\ i < j /\ j < k
          /\ action_log[i].analyzer_id = "X" /\ action_log[i].git_commit = git_commit
          /\ action_log[j].analyzer_id = "X" /\ action_log[j].git_commit # git_commit
          /\ action_log[k].analyzer_id = "X" /\ action_log[k].git_commit = git_commit
    /\ Len(load_output_actions(action_log, "X", git_commit)) = 1
    /\ \E commit \in Commits : commit # git_commit /\ load_output_actions(action_log, "X", commit) = <<>>

-----------------------------------------------------------------------------
(* SpecDone: analyzer X is executing, its module agent is registered next to  *)
(* the online agent; the module reports over the supervisor connection, the  *)
(* admin asks for cancellation, and the subprocess of the module ends.        *)

\* the transition_args of _script_agent_done: what the agent's slots hold
transition_args(ags, identifier) ==
    [temporary_coll |-> identifier,
     max_action_id |-> ags[identifier].result_max_action_id,
     timespans |-> ags[identifier].result_timespans,
     upload_ids |-> ags[identifier].result_upload_ids]

InitDone ==
    /\ analyzers_coll =
           [a \in StateAnalyzers |-> [create_analyzer({}, {"type0"}) EXCEPT !.state = "executing"]]
    /\ inflight = [c \in Callers |-> NoDoc]
    /\ last = NoCall
    /\ ordered = "X"
    /\ git_commit = "commit0"
    /\ InitLog
    /\ output_coll = <<>>
    /\ temporary_coll = [docs |-> <<>>, timespans |-> NoneList]
    /\ last_commit = [docs |-> <<>>, timespans |-> NoneList]
    /\ agents \in {<<create_agent("online", o), create_agent("module", m)>> : o, m \in Tokens}
    /\ reply = NoReply
    /\ crashed = {}
    /\ conn = new_connection
    /\ timelines = [A |-> <<>>, B |-> <<>>]
    /\ observation = <<>>
    /\ execution_result = NoResult
    /\ committing = NoCommit
    /\ temporary_db = DOMAIN agents

\* Supervisor._script_agent_done for the agent of analyzer_id, as the callback of
\* a future that raised (AnalyzerError of a non-zero return code, or any other
\* exception of execute) or returned: teardown (of the user; the collection is
\* left to the Validator) and the deletion from self.agents come first, an
\* exception of the state change leaves the callback
ScriptAgentDone(identifier, analyzer_id, raised) ==
    LET error == to_error(analyzers_coll, "supervisor", analyzer_id, "error when executing")
        executed == transition_outcome(analyzers_coll, "supervisor", analyzer_id,
                                       "executing", "executed")
    IN /\ identifier \in DOMAIN agents
       /\ agents[identifier] # NoAgent
       /\ agents[identifier].kind = "module"
       /\ agents' = [agents EXCEPT ![identifier] = NoAgent]
       /\ IF raised
          THEN /\ analyzers_coll' = error.coll
               /\ last' = [domain |-> "supervisor", observed |-> "executing",
                           outcome |-> error.outcome]
               /\ UNCHANGED execution_result
          ELSE /\ analyzers_coll' = transition_update(analyzers_coll, "supervisor", analyzer_id,
                                                      "executing", "executed")
               /\ last' = [domain |-> "supervisor", observed |-> "executing",
                           outcome |-> executed]
               /\ execution_result' = IF executed = "ok"
                                      THEN transition_args(agents, identifier)
                                      ELSE execution_result
       /\ UNCHANGED <<inflight, reply, crashed, conn>>
       /\ UNCHANGED <<sensorVars, logVars, output_coll, temporary_coll, last_commit, timelines, observation, committing, temporary_db>>

NextDone ==
    \/ \E r \in Requests(1..MaxAgents) :
          AnalyzerRequest(r.identifier, r.token, r.action, r.payload)
    \/ RequestWish("X", "cancel")
    \/ \E identifier \in 1..MaxAgents, raised \in BOOLEAN : ScriptAgentDone(identifier, "X", raised)

SpecDone == InitDone /\ [][NextDone]_vars

-----------------------------------------------------------------------------
(* Claims settled under SpecDone *)

\* C29: when the subprocess of a module has ended, the analyzer has left
\* executing: it is in error when the subprocess failed, and otherwise in
\* executed with the execution_result of its agent (scratch collection,
\* max_action_id, timespans, upload_ids); the agent is out of the map by then.
C29_ModuleDone ==
    [][ \A identifier \in 1..MaxAgents, raised \in BOOLEAN :
            ScriptAgentDone(identifier, "X", raised)
                => /\ agents'[identifier] = NoAgent
                   /\ analyzers_coll'["X"].state = IF raised THEN "error" ELSE "executed"
                   /\ ~ raised => execution_result' = transition_args(agents, identifier)
      ]_vars

-----------------------------------------------------------------------------
(* The loops and the exceptions of a tick, under SpecPipeline *)

\* the three loops
Loops == {"sensor", "supervisor", "validator"}

\* C30: an exception raised in a tick of one of the three loops while it
\* processes an analyzer moves that analyzer to error and does not stop the
\* loop: its later ticks still run.
C30_LoopsSurvive ==
    [][ \A domain \in Loops :
            (last' # last /\ last'.domain = domain /\ last'.outcome \notin {"ok", "None"})
                => /\ analyzers_coll'["X"].state = "error"
                   /\ domain \notin crashed'
      ]_vars


-----------------------------------------------------------------------------
(* The Validator's tick over an executed analyzer, under SpecPipeline *)

\* exactly one of the two result lists of the execution result is populated
OneResult(slots) == (slots.result_timespans = NoneList) # (slots.result_upload_ids = NoneList)

\* C31: a tick of the Validator over an executed analyzer whose cancel wish it
\* does not take up moves the analyzer on: to error when both or neither of
\* upload_ids and timespans are populated, and otherwise through validating to
\* sensing (the commit succeeded, the analyze entry with the new action id is in
\* the log) or to error (the validation failed).
C31_ValidatorDispatch ==
    [][ \A a \in StateAnalyzers :
            (ValidatorTick(a) /\ ~ honour_wish(analyzers_coll, "validator", a, "cancel").honoured)
                => IF OneResult(agent)
                   THEN \/ analyzers_coll'[a].state = "error"
                        \/ /\ analyzers_coll'[a].state = "sensing"
                           /\ Len(action_log') = Len(action_log) + 1
                           /\ action_log'[Len(action_log')].action = "analyze"
                   ELSE analyzers_coll'[a].state = "error"
      ]_vars


\* C32: when the validation of the scratch documents reports an error, the
\* commit refuses and the Validator moves the analyzer to error: no action id
\* is taken from the counter, the log gets no entry, and the observations are
\* left as they are.
C32_CommitRefuses ==
    [][ \A a \in StateAnalyzers :
            (/\ ValidatorTick(a)
             /\ ~ honour_wish(analyzers_coll, "validator", a, "cancel").honoured
             /\ validate(agent.result_timespans, FALSE))
                => /\ idfactory' = idfactory
                   /\ action_log' = action_log
                   /\ output_coll' = output_coll
                   /\ analyzers_coll'[a].state = "error"
      ]_vars


-----------------------------------------------------------------------------
(* SpecCommitSteps: a commit of the scratch collection of X, write by write.  *)
(* commit of validator.py, which Validator.check_for_analyzers calls, marks   *)
(* the candidates before it inserts the log entry; commit_normal of commit.py *)
(* has perform_commit insert the log entry first. The Validator may crash     *)
(* between any two writes.                                                    *)

CommitModules == {"validator", "commit"}

\* validate over the scratch documents of the run
scratch_errors(temp) ==
    validate(temp.timespans,
             \E j \in DOMAIN temp.docs : ~ time_within(temp.docs[j].time, temp.timespans))

\* commit / commit_normal up to action_id_creator(): on errors the function
\* returns them and writes nothing; the next run has a scratch collection of its own
CommitBegin(module) ==
    /\ committing = NoCommit
    /\ temporary_coll.timespans # NoneList
    /\ IF scratch_errors(temporary_coll)
       THEN /\ temporary_coll' = [docs |-> <<>>, timespans |-> NoneList]
            /\ UNCHANGED <<idfactory, committing>>
       ELSE /\ idfactory' = incrementor(idfactory).next
            /\ committing' = [NoCommit EXCEPT !.module = module,
                                              !.action_id = incrementor(idfactory).value]
            /\ UNCHANGED temporary_coll
    /\ UNCHANGED <<action_log, metadata_coll, requests_coll, agent, output_coll, last_commit>>
    /\ UNCHANGED <<stateVars, sensorVars, pipeVars, timelines, observation, execution_result, temporary_db>>

\* output_coll.update_many(candidates_query_valid, $push {id, valid: False}):
\* the first write to the observations
PushFalse ==
    /\ committing.module \in CommitModules
    /\ ~ committing.crashed
    /\ ~ committing.pushed
    /\ committing.module = "commit" => committing.logged
    /\ output_coll' = push_false(output_coll, temporary_coll.timespans, committing.action_id)
    /\ committing' = [committing EXCEPT !.pushed = TRUE]
    /\ UNCHANGED <<logVars, temporary_coll, last_commit>>
    /\ UNCHANGED <<stateVars, sensorVars, pipeVars, timelines, observation, execution_result, temporary_db>>

\* action_log.insert_one of the analyze entry
InsertLogEntry ==
    /\ committing.module \in CommitModules
    /\ ~ committing.crashed
    /\ ~ committing.logged
    /\ committing.module = "validator" => committing.pushed
    /\ action_log' = perform_commit(action_log, "X", NoneList, 0, committing.action_id)
    /\ committing' = [committing EXCEPT !.logged = TRUE]
    /\ UNCHANGED <<idfactory, metadata_coll, requests_coll, agent, output_coll, temporary_coll, last_commit>>
    /\ UNCHANGED <<stateVars, sensorVars, pipeVars, timelines, observation, execution_result, temporary_db>>

\* output_coll.bulk_write of create_output_ops
WriteObservations ==
    /\ committing.module \in CommitModules
    /\ ~ committing.crashed
    /\ committing.pushed /\ committing.logged /\ ~ committing.written
    /\ output_coll' = create_output_ops(output_coll, temporary_coll.docs,
                          mark_ops(output_coll, temporary_coll.docs, temporary_coll.timespans),
                          committing.action_id, 1)
    /\ committing' = [committing EXCEPT !.written = TRUE]
    /\ UNCHANGED <<logVars, temporary_coll, last_commit>>
    /\ UNCHANGED <<stateVars, sensorVars, pipeVars, timelines, observation, execution_result, temporary_db>>

\* temporary_coll.drop() and the return of the commit
DropScratch ==
    /\ committing.module \in CommitModules
    /\ ~ committing.crashed
    /\ committing.written
    /\ last_commit' = temporary_coll
    /\ temporary_coll' = [docs |-> <<>>, timespans |-> NoneList]
    /\ committing' = NoCommit
    /\ UNCHANGED <<logVars, output_coll>>
    /\ UNCHANGED <<stateVars, sensorVars, pipeVars, timelines, observation, execution_result, temporary_db>>

\* the process of the Validator ends between two writes of a commit
ValidatorCrash ==
    /\ committing.module \in CommitModules
    /\ ~ committing.crashed
    /\ committing' = [committing EXCEPT !.crashed = TRUE]
    /\ UNCHANGED <<logVars, output_coll, temporary_coll, last_commit>>
    /\ UNCHANGED <<stateVars, sensorVars, pipeVars, timelines, observation, execution_result, temporary_db>>

NextCommitSteps ==
    \/ \E docs \in ScratchInputs, timespans \in CommitTimespans : RunModule(docs, timespans)
    \/ \E module \in CommitModules : CommitBegin(module)
    \/ PushFalse
    \/ InsertLogEntry
    \/ WriteObservations
    \/ DropScratch
    \/ ValidatorCrash

SpecCommitSteps == InitCommit /\ [][NextCommitSteps]_vars

-----------------------------------------------------------------------------
(* Claims settled under SpecCommitSteps *)

\* C33: the analyze entry of a commit is in the log before the first write to
\* the observations: in every state, a crash between two writes included, each
\* action id in the action_ids of an observation is the _id of a log entry.
C33_LogBeforeObservations ==
    \A i \in DOMAIN output_coll : \A n \in DOMAIN output_coll[i].action_ids :
        \E k \in DOMAIN action_log : action_log[k]._id = output_coll[i].action_ids[n].id


-----------------------------------------------------------------------------
(* SpecCommitFrame: the commits of X into observations that already hold what *)
(* a commit of analyzer Y (action id 0) has inserted.                         *)

\* the observations of Y's commit: none, one at hour 4, or one at hour 4 and
\* one at hour 8, with the values X writes as well
OtherObservations ==
    {<<>>}
    \cup {<<[content |-> [analyzer_id |-> "Y", time |-> 4, value |-> v],
             action_ids |-> <<[id |-> 0, valid |-> TRUE]>>]>> : v \in {"v0", "v1"}}
    \cup {<<[content |-> [analyzer_id |-> "Y", time |-> 4, value |-> "v0"],
             action_ids |-> <<[id |-> 0, valid |-> TRUE]>>],
            [content |-> [analyzer_id |-> "Y", time |-> 8, value |-> "v0"],
             action_ids |-> <<[id |-> 0, valid |-> TRUE]>>]>>}

InitCommitFrame ==
    /\ analyzers_coll = [a \in StateAnalyzers |-> create_analyzer({}, {"type0"})]
    /\ inflight = [c \in Callers |-> NoDoc]
    /\ last = NoCall
    /\ ordered = "None"
    /\ git_commit = "commit0"
    /\ action_log = perform_commit(<<>>, "Y", NoneList, 0, 0)
    /\ idfactory = 1
    /\ metadata_coll = [u \in Uploads |-> new_upload]
    /\ requests_coll = <<>>
    /\ agent = new_agent
    /\ output_coll \in OtherObservations
    /\ temporary_coll = [docs |-> <<>>, timespans |-> NoneList]
    /\ last_commit = [docs |-> <<>>, timespans |-> NoneList]
    /\ agents = <<>>
    /\ reply = NoReply
    /\ crashed = {}
    /\ conn = new_connection
    /\ timelines = [A |-> <<>>, B |-> <<>>]
    /\ observation = <<>>
    /\ execution_result = NoResult
    /\ committing = NoCommit
    /\ temporary_db = {}

SpecCommitFrame == InitCommitFrame /\ [][NextCommit]_vars

-----------------------------------------------------------------------------
(* Claims settled under SpecCommitFrame *)

-----------------------------------------------------------------------------
(* The uploads and the requests of the Validator, under SpecLog *)

\* the upload entries of the log that name the upload in upload_ids, as
\* ActionSetBase.direct and action_ids_timespans_from_uploads read them
UploadEntries(u) ==
    {i \in DOMAIN action_log : action_log[i].action = "upload" /\ action_log[i].upload_ids = <<u>>}

\* C35: an upload is given at most one action id, and its metadata row carries
\* action id k with valid = true exactly when the log holds the entry
\* {_id: k, action: upload, upload_ids: [the upload]}.
C35_UploadActionId ==
    \A u \in Uploads :
        /\ Cardinality(UploadEntries(u)) <= 1
        /\ (metadata_coll[u].action_id # -1 /\ metadata_coll[u].valid)
              <=> \E i \in UploadEntries(u) : action_log[i]._id = metadata_coll[u].action_id


\* the requests of the queue that name an upload the Validator has logged
KnownRequests ==
    {n \in DOMAIN requests_coll :
        /\ metadata_coll[requests_coll[n].upload_id].action_id # -1
        /\ \E i \in DOMAIN action_log : /\ action_log[i].action = "upload"
                                        /\ action_log[i].upload_id = requests_coll[n].upload_id}

\* C36: a tick of the Validator empties the queue of validate_upload requests,
\* oldest first; each request that names a known upload sets the upload's
\* valid field and appends one entry marked_valid or marked_invalid that names
\* the upload in upload_ids, where direct sensitivity reads it; a request that
\* names an unknown upload appends nothing.
C36_Requests ==
    [][ CheckForRequests
            => /\ requests_coll' = <<>>
               /\ Len(action_log') = Len(action_log) + Cardinality(KnownRequests)
               /\ SubSeq(action_log', 1, Len(action_log)) = action_log
               /\ \A n \in KnownRequests :
                     \E k \in (Len(action_log) + 1) .. Len(action_log') :
                        /\ action_log'[k].upload_ids = <<requests_coll[n].upload_id>>
                        /\ action_log'[k].action = IF requests_coll[n].valid THEN "marked_valid"
                                                   ELSE "marked_invalid"
               /\ \A n \in KnownRequests :
                     (\A h \in KnownRequests : requests_coll[h].upload_id = requests_coll[n].upload_id => h <= n)
                        => metadata_coll'[requests_coll[n].upload_id].valid = requests_coll[n].valid
      ]_vars


-----------------------------------------------------------------------------
(* The scratch collections of the module agents, under SpecDone *)

\* the collections of temporary_db that a ModuleAgent has created for a run
ModuleScratch == {i \in temporary_db : i \in DOMAIN agents /\ agents[i].kind # "online"}

\* C37: a scratch collection lives only as long as the run it was created for:
\* while the analyzer is in sensing, disabled or error, no scratch collection
\* of one of its runs exists.
C37_ScratchDropped ==
    \A a \in StateAnalyzers :
        analyzers_coll[a].state \in {"sensing", "disabled", "error"} => ModuleScratch = {}


-----------------------------------------------------------------------------
(* SpecInflight: uploads are logged while a run of the basic analyzer X is in *)
(* flight: the analyze entry of the run carries the max_action_id the module  *)
(* reported, which is the id of an entry older than the commit.               *)

\* commit_normal: a run of X at the checked-out commit is committed; its module
\* reported the newest action id it had been given when it was started
LogAnalyzeInflight(timespan, max_action_id) ==
    /\ max_action_id \in 0 .. (idfactory - 1)
    /\ append_action(action_doc(incrementor(idfactory).value, "analyze", NoneList,
                                <<timespan>>, max_action_id, "X", {}, git_commit))

NextInflight ==
    \/ \E u \in Uploads, timespan \in UploadTimespans :
          /\ Len(action_log) < MaxBasicLog
          /\ u = "B" => "A" \in uploaded(action_log)
          /\ LogUpload(u, timespan)
    \/ \E timespan \in UploadTimespans, m \in 0 .. (MaxBasicLog - 1) :
          Len(action_log) < MaxBasicLog /\ LogAnalyzeInflight(timespan, m)

SpecInflight == InitBasic /\ [][NextInflight]_vars

-----------------------------------------------------------------------------
(* Claims settled under SpecInflight *)

\* C38: an input action that no counted run of X has seen (its id is larger
\* than the max_action_id of every analyze entry of X at the checked-out
\* commit) is not lost: basic() reports every stretch of its timespans as
\* unprocessed, also where an analyze entry with a larger _id covers it.
C38_InflightInput ==
    \A i \in Inputs(action_log) :
        (\A o \in CountedOutputs(action_log, git_commit) :
             action_log[o].max_action_id < action_log[i]._id)
           => \A s \in Segments :
                 Covers(action_log[i].timespans, s)
                    => Covers(basic_mongo(action_log, git_commit)[2], s)


-----------------------------------------------------------------------------
(* The cancel wish and the loops, under SpecPipeline with its fair ticks *)

\* C39: a cancel wish on an analyzer that is in sensing or in a running state
\* leads, if it is not replaced and the loops keep ticking, to the analyzer in
\* state error with the reason cancelled.
C39_CancelEventually ==
    \A a \in StateAnalyzers :
        (/\ analyzers_coll[a].wish = "cancel"
         /\ analyzers_coll[a].state \in {"sensing"} \cup running_states)
            ~> (\/ analyzers_coll[a].wish # "cancel"
                \/ /\ analyzers_coll[a].state = "error"
                   /\ analyzers_coll[a].error[2] = "cancelled")


-----------------------------------------------------------------------------
(* The valid observations after the commits of SpecCommit *)

\* C40: after any sequence of successful commits no two valid observations
\* (newest entry of action_ids valid) agree on all identity fields: a scratch
\* document that equals a candidate, or another scratch document of its run,
\* is not inserted as a new observation.
C40_NoDuplicates ==
    \A i, j \in DOMAIN output_coll :
        (/\ i # j
         /\ output_coll[i].action_ids[1].valid
         /\ output_coll[j].action_ids[1].valid)
            => output_coll[i].content # output_coll[j].content


====
